---- MODULE Spec2Model ----
(***************************************************************************)
(* A model of sync-settings-with-github: the SyncService orchestrator      *)
(* (src/src/sync/syncService.ts) on top of the GitService version-control  *)
(* client (src/unnamed/part_001).                                          *)
(*                                                                         *)
(* Every asynchronous invocation (a command, a timer callback) is a task   *)
(* of a small pool; a task's step is the code between two awaits that wait *)
(* for real input/output (a git command, a file operation, a user prompt). *)
(* Timers are count-downs in milliseconds; time passes by Advance.         *)
(***************************************************************************)
EXTENDS Integers, Sequences, FiniteSets, TLC

\* ------------------------------------------------------------- bounds
MaxTasks == 2           \* asynchronous invocations in flight at once
MaxCmds == 1            \* commands the user runs
MaxEdits == 1           \* edits the user makes to live files
MaxRemoteCommits == 1   \* commits another machine pushes to the remote
MaxFaults == 1          \* git commands and file copies that fail
MaxContent == 2         \* file contents are 1..MaxContent, 0 is "no file"
MaxCommits == 6         \* commit identifiers
MaxBurst == 2           \* edits of a burst of file events
MaxOverrides == 2       \* force commands the user runs
MaxColdCmds == 2        \* commands the user runs on a service just constructed
MaxToggles == 3         \* toggleSync commands the user runs
MaxSynced == 3          \* entries of extensions.json
MaxReinitCmds == 3      \* commands the user runs, a reinitialize among them
MaxWatchCmds == 2       \* configuration changes, extension changes and toggles
MaxEvents == 3          \* file events of one path at intervals below EVENT_THRESHOLD

\* ------------------------------------------------------------- constants
EVENT_THRESHOLD == 100  \* ms, duplicate-event threshold
SyncSettleDelay == 1000 \* ms, delay before isSyncing is released
ApplyGraceDelay == 1000 \* ms, delay before isApplyingRemoteChanges is released
DebounceDelay == 200    \* ms, settingsSync.debounceDelay * 1000, configured as 0.2 s
SyncInterval == 1500    \* ms, settingsSync.syncInterval * 1000, configured as 1.5 s

\* the amounts by which time passes in one step
Deltas == {500}
\* and where the spacing of file events matters
FineDeltas == {50}

NoTimer == -1

\* ------------------------------------------------------------- files
PatternFiles == {"settings.json"}
ExternalFiles == {}
Files == PatternFiles \cup ExternalFiles
\* the order in which a mirror batch visits the files
FileOrder == <<"settings.json">>

Contents == 0..MaxContent
Trees == [Files -> Contents]
EmptyTree == [f \in Files |-> 0]
InitTree == [f \in Files |-> 1]

TaskIds == 1..MaxTasks

\* ------------------------------------------------------------- a batch of files
\* two files the patterns match and one external file, in the order a mirror
\* batch visits them
MirrorFiles == {"settings.json", "keybindings.json", "~/.profile"}
MirrorExternal == {"~/.profile"}
MirrorOrder == <<"settings.json", "keybindings.json", "~/.profile">>
NoFiles == [f \in MirrorFiles |-> 0]

\* no mirror batch has run
MirrorIdle == [pc |-> "idle", source |-> NoFiles, target |-> NoFiles,
               batch |-> <<>>, todo |-> <<>>, copied |-> {}, at |-> "none",
               removed |-> FALSE, res |-> "none"]

\* ------------------------------------------------------------- extensions
\* extension identifiers, in the order vscode.extensions.all lists them
ExtIds == {"a", "b", "c"}
ExtOrder == <<"a", "b", "c">>
\* readSyncedExtensions returns null: extensions.json does not exist
NoList == <<"null">>

\* the extension service before a call of pullExtensions: nothing installed,
\* no extensions.json
ExtIdle == [pc |-> "idle", sync |-> TRUE, autoRemove |-> FALSE,
            synced |-> NoList, all |-> {}, builtin |-> {}, all0 |-> {},
            queue |-> <<>>, installs |-> <<>>, uninstalls |-> <<>>,
            failed |-> 0, res |-> "none"]
CommitIds == 1..MaxCommits

VARIABLES
    \* SyncService
    isEnabled, isSyncing, isApplyingRemoteChanges,
    syncTimer, debounceTimer,
    syncReleaseTimers, applyReleaseTimers,
    watching, lastEventAge,
    tasks,
    \* the live directory and the pending file-system events
    live, fsEvents,
    \* GitService and its repository
    initialized, workingDirectoryExists,
    workTree, index, localBranch, originBranch, remoteBranch, trees,
    \* the environment's budgets
    cmdsLeft, editsLeft, remoteLeft, faultsLeft,
    \* history: time since the last file event reached handleFileEvent, since the
    \* last one that re-armed the debounce timer, and since the last mirror ended
    sinceEvent, sinceSurvivor, sinceMirror,
    \* history: for each path, the time since a watcher last delivered an event
    \* of the path, whether handleFileEvent dropped it or not
    sinceDelivered,
    \* ExtensionService: one call of pullExtensions and what it has requested
    ext,
    \* one mirror batch over several files: its two directories and its progress
    mirror

ctlVars == <<isEnabled, isSyncing, isApplyingRemoteChanges, syncTimer,
             debounceTimer, syncReleaseTimers, applyReleaseTimers, watching, tasks>>
gitVars == <<initialized, workingDirectoryExists,
             workTree, index, localBranch, originBranch, remoteBranch, trees>>
envVars == <<cmdsLeft, editsLeft, remoteLeft, faultsLeft>>
clockVars == <<lastEventAge, sinceEvent, sinceSurvivor, sinceMirror, sinceDelivered>>
vars == <<ctlVars, gitVars, envVars, clockVars, live, fsEvents, ext, mirror>>

\* ------------------------------------------------------------- helpers
Last(s) == s[Len(s)]
Front(s) == SubSeq(s, 1, Len(s) - 1)
InSeq(x, s) == \E i \in 1..Len(s) : s[i] = x
IsPrefix(a, b) == Len(a) <= Len(b) /\ SubSeq(b, 1, Len(a)) = a
Min(a, b) == IF a < b THEN a ELSE b

RECURSIVE FilterSeq(_, _)
\* the elements of s that are not in the sequence t, in s's order
FilterSeq(s, t) ==
    IF s = <<>> THEN <<>>
    ELSE IF InSeq(Head(s), t) THEN FilterSeq(Tail(s), t)
         ELSE <<Head(s)>> \o FilterSeq(Tail(s), t)

\* ------------------------------------------------------------- the repository
HeadTree == IF localBranch = <<>> THEN EmptyTree ELSE trees[Last(localBranch)]
RemoteTree == IF remoteBranch = <<>> THEN EmptyTree ELSE trees[Last(remoteBranch)]

\* local commits the remote branch does not hold
Unpushed == FilterSeq(localBranch, remoteBranch)
\* remote commits the local branch does not hold
Unpulled == FilterSeq(remoteBranch, localBranch)
\* the tree the first unpushed commit was made on
ForkTree ==
    LET shared == FilterSeq(localBranch, Unpushed)
    IN IF shared = <<>> THEN EmptyTree ELSE trees[Last(shared)]

FreeCommitIds ==
    {i \in CommitIds : ~InSeq(i, localBranch) /\ ~InSeq(i, remoteBranch) /\ ~InSeq(i, originBranch)}
NewCommitId == CHOOSE i \in FreeCommitIds : \A j \in FreeCommitIds : i <= j

\* git status, as GitService.hasChanges reads it: a path is reported in
\* not_added, modified or deleted; a staged new file (created) is in none of them
StatusChanged(f) ==
    LET h == HeadTree[f]
        i == index[f]
        w == workTree[f]
    IN \/ h = 0 /\ i = 0 /\ w # 0
       \/ i # 0 /\ w # 0 /\ w # i
       \/ h # 0 /\ i # 0 /\ i # h
       \/ i # 0 /\ w = 0
       \/ h # 0 /\ i = 0

hasChanges == initialized /\ \E f \in Files : StatusChanged(f)

RECURSIVE Replay(_, _, _)
\* the trees of the commits ids once replayed onto the tree base; parent is the
\* tree the first of them was made on
Replay(ids, parent, base) ==
    IF ids = <<>> THEN <<>>
    ELSE LET t == trees[Head(ids)]
             n == [f \in Files |-> IF t[f] # parent[f] THEN t[f] ELSE base[f]]
         IN <<n>> \o Replay(Tail(ids), t, n)

RECURSIVE ReplayConflict(_, _, _)
ReplayConflict(ids, parent, base) ==
    IF ids = <<>> THEN FALSE
    ELSE LET t == trees[Head(ids)]
             n == [f \in Files |-> IF t[f] # parent[f] THEN t[f] ELSE base[f]]
         IN \/ \E f \in Files : t[f] # parent[f] /\ base[f] # parent[f] /\ base[f] # t[f]
            \/ ReplayConflict(Tail(ids), t, n)

\* git pull --rebase: the local branch becomes the remote branch followed by the
\* unpushed commits replayed on it (a replayed commit keeps its identifier)
PulledTrees == Replay(Unpushed, ForkTree, RemoteTree)
PulledHead == IF Unpushed = <<>> THEN RemoteTree ELSE Last(PulledTrees)
PullPossible ==
    /\ ~ReplayConflict(Unpushed, ForkTree, RemoteTree)
    /\ \A f \in Files :
          (workTree[f] # HeadTree[f] \/ index[f] # HeadTree[f]) => PulledHead[f] = HeadTree[f]

GitPullOk ==
    /\ PullPossible
    /\ localBranch' = remoteBranch \o Unpushed
    /\ trees' = [i \in CommitIds |->
                   IF \E k \in 1..Len(Unpushed) : Unpushed[k] = i
                   THEN PulledTrees[CHOOSE k \in 1..Len(Unpushed) : Unpushed[k] = i]
                   ELSE IF InSeq(i, localBranch) \/ InSeq(i, remoteBranch) THEN trees[i]
                   ELSE EmptyTree]
    /\ workTree' = [f \in Files |-> IF workTree[f] = HeadTree[f] THEN PulledHead[f] ELSE workTree[f]]
    /\ index' = [f \in Files |-> IF index[f] = HeadTree[f] THEN PulledHead[f] ELSE index[f]]
    /\ originBranch' = remoteBranch
    /\ UNCHANGED <<initialized, workingDirectoryExists, remoteBranch>>

\* git add .
GitAdd ==
    /\ index' = workTree
    /\ UNCHANGED <<initialized, workingDirectoryExists, workTree, localBranch, originBranch, remoteBranch, trees>>

\* git commit --allow-empty: a commit is made even with nothing staged
GitCommitAllowEmpty ==
    /\ FreeCommitIds # {}
    /\ trees' = [trees EXCEPT ![NewCommitId] = index]
    /\ localBranch' = Append(localBranch, NewCommitId)
    /\ UNCHANGED <<initialized, workingDirectoryExists, workTree, index, originBranch, remoteBranch>>

\* git commit: with nothing staged no commit is made (and simple-git reports no error)
GitCommit ==
    IF index = HeadTree
    THEN UNCHANGED gitVars
    ELSE /\ FreeCommitIds # {}
         /\ trees' = [trees EXCEPT ![NewCommitId] = index]
         /\ localBranch' = Append(localBranch, NewCommitId)
         /\ UNCHANGED <<initialized, workingDirectoryExists, workTree, index, originBranch, remoteBranch>>

\* commits that no branch holds any more are forgotten
Gc(tr, lb, ob, rb) ==
    [i \in CommitIds |-> IF InSeq(i, lb) \/ InSeq(i, ob) \/ InSeq(i, rb) THEN tr[i] ELSE EmptyTree]

\* git push: rejected unless the remote branch is a prefix of the local one
PushAccepted == IsPrefix(remoteBranch, localBranch)
GitPushOk ==
    /\ PushAccepted
    /\ remoteBranch' = localBranch
    /\ originBranch' = localBranch
    /\ trees' = Gc(trees, localBranch, localBranch, localBranch)
    /\ UNCHANGED <<initialized, workingDirectoryExists, workTree, index, localBranch>>

\* a push without -f that reports success: the remote branch moves only when
\* it is a prefix of the local one
GitForcePushUnforced ==
    /\ remoteBranch' = IF PushAccepted THEN localBranch ELSE remoteBranch
    /\ originBranch' = remoteBranch'
    /\ trees' = Gc(trees, localBranch, remoteBranch', remoteBranch')
    /\ UNCHANGED <<initialized, workingDirectoryExists, workTree, index, localBranch>>

\* git push -f
GitForcePushOk ==
    /\ remoteBranch' = localBranch
    /\ originBranch' = localBranch
    /\ trees' = Gc(trees, localBranch, localBranch, localBranch)
    /\ UNCHANGED <<initialized, workingDirectoryExists, workTree, index, localBranch>>

\* git fetch origin
GitFetch ==
    /\ originBranch' = remoteBranch
    /\ trees' = Gc(trees, localBranch, remoteBranch, remoteBranch)
    /\ UNCHANGED <<initialized, workingDirectoryExists, workTree, index, localBranch, remoteBranch>>

\* the tree of the last commit of the branch br
TipTree(br) == IF br = <<>> THEN EmptyTree ELSE trees[Last(br)]

\* git reset --hard to the commits br: tracked files take the target's content,
\* untracked files that the target does not hold stay
GitResetHard(br) ==
    LET target == IF br = <<>> THEN EmptyTree ELSE trees[Last(br)]
    IN /\ localBranch' = br
       /\ index' = target
       /\ workTree' = [f \in Files |->
                          IF index[f] # 0 \/ HeadTree[f] # 0 \/ target[f] # 0
                          THEN target[f] ELSE workTree[f]]
       /\ trees' = Gc(trees, br, originBranch, remoteBranch)
       /\ UNCHANGED <<initialized, workingDirectoryExists, originBranch, remoteBranch>>

\* ------------------------------------------------------------- tasks
\* kind: the entry point; pc: the await the task is at; ret: the place its
\* current call returns to; todo: the files of a mirror batch still to copy.
\* History: got (the last pull brought commits), u0 (unpushed commits when
\* push() was entered), rej (the first git push of this push() failed),
\* tries (the git pushes that this push() has attempted and seen fail),
\* tip (the tree that the reset of this forcePull() has checked out),
\* res (how the last invocation in this slot ended: "ok", "error", or, when
\* sync() returned before its body, "disabled" or "skipped"); the kind of an
\* idle slot is the kind of that last invocation
Idle == [kind |-> "none", pc |-> "idle", ret |-> "none", todo |-> <<>>,
         got |-> FALSE, u0 |-> 0, rej |-> FALSE, tries |-> 0, tip |-> EmptyTree,
         res |-> "none"]

\* the fields of SyncService that a step between two awaits reads and writes
Ctl == [tasks |-> tasks, en |-> isEnabled, syn |-> isSyncing,
        app |-> isApplyingRemoteChanges, syncTimer |-> syncTimer,
        debounceTimer |-> debounceTimer, synRel |-> syncReleaseTimers,
        appRel |-> applyReleaseTimers, watching |-> watching]

SetCtl(c) ==
    /\ tasks' = c.tasks
    /\ isEnabled' = c.en
    /\ isSyncing' = c.syn
    /\ isApplyingRemoteChanges' = c.app
    /\ syncTimer' = c.syncTimer
    /\ debounceTimer' = c.debounceTimer
    /\ syncReleaseTimers' = c.synRel
    /\ applyReleaseTimers' = c.appRel
    /\ watching' = c.watching

\* the configuration values a step may read: they are re-read on every use
Configs == [pullBeforePush : BOOLEAN, pullBeforeForcePush : BOOLEAN]

At(c, t, pc, ret) == [c EXCEPT !.tasks[t] = [@ EXCEPT !.pc = pc, !.ret = ret]]
Finish(c, t, res) ==
    [c EXCEPT !.tasks[t] = [Idle EXCEPT !.res = res, !.kind = c.tasks[t].kind]]

\* SyncService.setupPeriodicSync: clears the pending timer and arms a new one
setupPeriodicSync(c) == [c EXCEPT !.syncTimer = SyncInterval]

\* the end of initialize() without the assignment isEnabled = true
InitSetupKeepsFlag(c, t) ==
    Finish([setupPeriodicSync(c) EXCEPT !.watching = TRUE], t, "ok")

\* the end of initialize(): setupFileWatcher, setupPeriodicSync,
\* setupExtensionWatcher, isEnabled = true
InitSetup(c, t) ==
    Finish([setupPeriodicSync(c) EXCEPT !.watching = TRUE, !.en = TRUE], t, "ok")

\* what the caller of sync() does once sync() has returned (res is "ok",
\* "disabled" or "skipped") or thrown ("error"):
\* the periodic callback arms the next timer, unless sync() threw
AfterSync(c, t, res) ==
    IF c.tasks[t].kind = "periodic" /\ res # "error"
    THEN Finish(setupPeriodicSync(c), t, res)
    ELSE Finish(c, t, res)

\* sync() with the release of the guard at the end of the try block instead of
\* in a finally block
SyncEndNoFinally(c, t, threw) ==
    AfterSync(IF threw THEN c ELSE [c EXCEPT !.synRel = @ \cup {SyncSettleDelay}], t,
              IF threw THEN "error" ELSE "ok")

\* the finally block of sync(): the guard is released by a timer
SyncEnd(c, t, threw) ==
    AfterSync([c EXCEPT !.synRel = @ \cup {SyncSettleDelay}], t,
              IF threw THEN "error" ELSE "ok")

\* GitService.hasChanges() up to its git command
CallStatus(c, t, ret) == At(c, t, "git_status", ret)

\* GitService.pull() up to its git command
CallPull(c, t, ret) == At([c EXCEPT !.tasks[t].got = FALSE], t, "git_pull", ret)

\* GitService.push() up to its first git command
CallPush(c, t, ret, k) ==
    At([c EXCEPT !.tasks[t].u0 = Len(Unpushed), !.tasks[t].rej = FALSE,
                 !.tasks[t].tries = 0], t,
       IF k.pullBeforePush THEN "push_pull" ELSE "push_add", ret)

\* GitService.forcePush() up to its first git command
CallForcePush(c, t, ret, k) ==
    At(c, t, IF k.pullBeforeForcePush THEN "fpush_pull" ELSE "fpush_add", ret)

\* SyncService.copyFilesToWorkingDir / copyFilesFromWorkingDir up to the glob
CallCopyTo(c, t, ret) == At(c, t, "copyTo_glob", ret)
CallCopyFrom(c, t, ret) == At([c EXCEPT !.app = TRUE], t, "copyFrom_glob", ret)

\* ExtensionService.pushExtensions / pullExtensions
CallPushExt(c, t, ret) == At(c, t, "ext_push", ret)
CallPullExt(c, t, ret) == At(c, t, "ext_pull", ret)

\* sync() without the check of the syncing guard
SyncEntryUnguarded(c, t) ==
    IF ~c.en THEN AfterSync(c, t, "disabled")
    ELSE IF ~initialized THEN AfterSync(c, t, "error")
    ELSE CallStatus([c EXCEPT !.syn = TRUE], t, "sync_status1")

\* sync() with the check of the syncing guard inside the try block, so that the
\* finally block runs for a call that the guard turns away
SyncEntryReleases(c, t) ==
    IF ~c.en THEN AfterSync(c, t, "disabled")
    ELSE IF c.syn THEN AfterSync([c EXCEPT !.synRel = @ \cup {SyncSettleDelay}], t, "skipped")
    ELSE IF ~initialized THEN AfterSync(c, t, "error")
    ELSE CallStatus([c EXCEPT !.syn = TRUE], t, "sync_status1")

\* sync() that sets the guard before it tests the GitService
SyncEntryLocksFirst(c, t) ==
    IF ~c.en THEN AfterSync(c, t, "disabled")
    ELSE IF c.syn THEN AfterSync(c, t, "skipped")
    ELSE IF ~initialized THEN AfterSync([c EXCEPT !.syn = TRUE], t, "error")
    ELSE CallStatus([c EXCEPT !.syn = TRUE], t, "sync_status1")

\* sync() from its first line to its first await
SyncEntry(c, t) ==
    IF ~c.en THEN AfterSync(c, t, "disabled")
    ELSE IF c.syn THEN AfterSync(c, t, "skipped")
    ELSE IF ~initialized THEN AfterSync(c, t, "error")
    ELSE CallStatus([c EXCEPT !.syn = TRUE], t, "sync_status1")

\* what follows the return (threw = FALSE, with value v) or the failure
\* (threw = TRUE) of the call that was made with the return label ret
Return(c, t, ret, v, threw, k) ==
    CASE ret = "init_pulled" ->
            IF threw THEN InitSetup(c, t) ELSE CallStatus(c, t, "init_status")
      [] ret = "init_status" ->
            IF ~threw /\ v THEN CallCopyFrom(c, t, "init_applied") ELSE InitSetup(c, t)
      [] ret = "init_applied" ->
            IF threw THEN InitSetup(c, t) ELSE CallPullExt(c, t, "init_ext")
      [] ret = "init_ext" -> InitSetup(c, t)
      [] ret = "sync_status1" ->
            IF threw THEN SyncEnd(c, t, TRUE)
            ELSE IF v THEN CallCopyTo(c, t, "sync_copied")
            ELSE IF ~initialized THEN SyncEnd(c, t, TRUE)
            ELSE CallPull(c, t, "sync_pulled")
      [] ret = "sync_copied" ->
            IF threw THEN SyncEnd(c, t, TRUE) ELSE CallPushExt(c, t, "sync_extpushed")
      [] ret = "sync_extpushed" ->
            IF threw \/ ~initialized THEN SyncEnd(c, t, TRUE)
            ELSE CallPush(c, t, "sync_pushed", k)
      [] ret = "sync_pushed" -> SyncEnd(c, t, threw)
      [] ret = "sync_pulled" ->
            IF threw THEN SyncEnd(c, t, TRUE) ELSE CallStatus(c, t, "sync_status2")
      [] ret = "sync_status2" ->
            IF threw THEN SyncEnd(c, t, TRUE)
            ELSE IF v THEN CallCopyFrom(c, t, "sync_applied")
            ELSE SyncEnd(c, t, FALSE)
      [] ret = "sync_applied" ->
            IF threw THEN SyncEnd(c, t, TRUE) ELSE CallPullExt(c, t, "sync_extpulled")
      [] ret = "sync_extpulled" -> SyncEnd(c, t, threw)
      [] ret = "deb_copied" ->
            IF threw THEN Finish(c, t, "error") ELSE CallStatus(c, t, "deb_status")
      [] ret = "deb_status" ->
            IF threw THEN Finish(c, t, "error")
            ELSE IF v THEN SyncEntry(c, t)
            ELSE Finish(c, t, "ok")
      [] ret = "fpush_copied" ->
            IF threw THEN Finish(c, t, "error") ELSE CallPushExt(c, t, "fpush_ext")
      [] ret = "fpush_ext" ->
            IF threw \/ ~initialized THEN Finish(c, t, "error")
            ELSE CallForcePush(c, t, "fpush_done", k)
      [] ret = "fpush_done" -> Finish(c, t, IF threw THEN "error" ELSE "ok")
      [] ret = "fpull_git" ->
            IF threw THEN Finish(c, t, "error") ELSE CallCopyFrom(c, t, "fpull_applied")
      [] ret = "fpull_applied" ->
            IF threw THEN Finish(c, t, "error") ELSE CallPullExt(c, t, "fpull_ext")
      [] ret = "fpull_ext" -> Finish(c, t, IF threw THEN "error" ELSE "ok")
      [] ret = "cfg_copied" ->
            IF threw THEN Finish(c, t, "error")
            ELSE CallStatus([c EXCEPT !.watching = TRUE], t, "cfg_status")
      [] ret = "cfg_status" ->
            IF threw THEN Finish(c, t, "error")
            ELSE IF v THEN CallPush(c, t, "cfg_pushed", k)
            ELSE Finish(c, t, "ok")
      [] ret = "cfg_pushed" -> Finish(c, t, IF threw THEN "error" ELSE "ok")
      [] ret = "extw_written" ->
            IF threw THEN Finish(c, t, "error") ELSE CallStatus(c, t, "extw_status")
      [] ret = "extw_status" ->
            IF threw THEN Finish(c, t, "error")
            ELSE IF v THEN CallPush(c, t, "extw_pushed", k)
            ELSE Finish(c, t, "ok")
      [] ret = "extw_pushed" -> Finish(c, t, IF threw THEN "error" ELSE "ok")

\* ------------------------------------------------------------- starting a task
FreeTasks == {t \in TaskIds : tasks[t].pc = "idle"}
NewTask == CHOOSE t \in FreeTasks : \A u \in FreeTasks : t <= u
Spawn(c, t, kind) == [c EXCEPT !.tasks[t] = [Idle EXCEPT !.kind = kind]]

\* the user runs a command
Command ==
    /\ cmdsLeft > 0
    /\ cmdsLeft' = cmdsLeft - 1
    /\ UNCHANGED <<gitVars, editsLeft, remoteLeft, faultsLeft, clockVars, live, fsEvents, ext, mirror>>

\* the command sync-settings-with-github.initialize, and activation
CmdInitialize ==
    /\ Command
    /\ FreeTasks # {}
    /\ SetCtl(At(Spawn(Ctl, NewTask, "init"), NewTask, "git_init", "none"))

\* the command sync-settings-with-github.sync
CmdSync ==
    /\ Command
    /\ FreeTasks # {}
    /\ SetCtl(SyncEntry(Spawn(Ctl, NewTask, "sync"), NewTask))

\* the command sync-settings-with-github.forcePush
CmdForcePush ==
    /\ Command
    /\ FreeTasks # {}
    /\ SetCtl(CallCopyTo(Spawn(Ctl, NewTask, "forcePush"), NewTask, "fpush_copied"))

\* the listener of onDidChangeConfiguration that the constructor registers, for
\* a change that affects settingsSync.files: it tests no flag and no guard
configChanged ==
    /\ Command
    /\ FreeTasks # {}
    /\ SetCtl(CallCopyTo(Spawn(Ctl, NewTask, "configChange"), NewTask, "cfg_copied"))

\* the listener of extensions.onDidChange that initialize() registers: it
\* returns when the service is disabled or a guard is set, and sets no guard
extensionsChanged ==
    /\ Command
    /\ watching
    /\ IF ~isEnabled \/ isSyncing \/ isApplyingRemoteChanges
       THEN SetCtl(Ctl)
       ELSE /\ FreeTasks # {}
            /\ SetCtl(CallPushExt(Spawn(Ctl, NewTask, "extensionChange"), NewTask,
                                  "extw_written"))

\* the command sync-settings-with-github.forcePull
CmdForcePull ==
    /\ Command
    /\ FreeTasks # {}
    /\ SetCtl(IF initialized
              THEN At(Spawn(Ctl, NewTask, "forcePull"), NewTask, "fpull_fetch", "fpull_git")
              ELSE Finish(Spawn(Ctl, NewTask, "forcePull"), NewTask, "error"))

\* the command sync-settings-with-github.reinitialize, whose warning the user
\* answers with Yes (with any other answer the command does nothing)
CmdReinitialize ==
    /\ Command
    /\ FreeTasks # {}
    /\ SetCtl(At(Spawn(Ctl, NewTask, "reinitialize"), NewTask, "reinit_rm", "none"))

\* enable() that sets the flag and leaves the timer alone
enableFlagOnly(c) == [c EXCEPT !.en = TRUE]

\* SyncService.enable / disable
enable(c) == setupPeriodicSync([c EXCEPT !.en = TRUE])
disable(c) == [c EXCEPT !.en = FALSE]

\* SyncService.toggleEnabled, the command toggleSync
toggleEnabled ==
    /\ Command
    /\ SetCtl(LET c == [Ctl EXCEPT !.en = ~isEnabled]
              IN IF c.en THEN enable(c) ELSE disable(c))

\* dispose() without the assignment isEnabled = false
disposeKeepsFlag ==
    /\ cmdsLeft > 0
    /\ cmdsLeft' = cmdsLeft - 1
    /\ SetCtl([Ctl EXCEPT !.syncTimer = NoTimer, !.debounceTimer = NoTimer,
                          !.watching = FALSE])
    /\ fsEvents' = {}
    /\ UNCHANGED <<gitVars, editsLeft, remoteLeft, faultsLeft, clockVars, live, ext, mirror>>

\* SyncService.dispose, called by deactivate: the flag is cleared, the two
\* timers are cancelled, the watchers are closed and every listener is
\* disposed, so no event that is still pending reaches handleFileEvent
dispose ==
    /\ cmdsLeft > 0
    /\ cmdsLeft' = cmdsLeft - 1
    /\ SetCtl([Ctl EXCEPT !.en = FALSE, !.syncTimer = NoTimer,
                          !.debounceTimer = NoTimer, !.watching = FALSE])
    /\ fsEvents' = {}
    /\ UNCHANGED <<gitVars, editsLeft, remoteLeft, faultsLeft, clockVars, live, ext, mirror>>

\* ------------------------------------------------------------- timers
\* the callback of the timer armed by setupPeriodicSync
PeriodicFire ==
    /\ syncTimer = 0
    /\ FreeTasks # {}
    /\ SetCtl(LET c == [Ctl EXCEPT !.syncTimer = NoTimer]
              IN IF isEnabled THEN SyncEntry(Spawn(c, NewTask, "periodic"), NewTask) ELSE c)
    /\ UNCHANGED <<gitVars, envVars, clockVars, live, fsEvents, ext, mirror>>

\* the callback of the debounce timer armed by handleFileChange
DebounceFire ==
    /\ debounceTimer = 0
    /\ FreeTasks # {}
    /\ SetCtl(CallCopyTo(Spawn([Ctl EXCEPT !.debounceTimer = NoTimer], NewTask, "debounce"),
                         NewTask, "deb_copied"))
    /\ UNCHANGED <<gitVars, envVars, clockVars, live, fsEvents, ext, mirror>>

\* the timer of sync()'s finally block
SyncRelease ==
    /\ 0 \in syncReleaseTimers
    /\ SetCtl([Ctl EXCEPT !.syn = FALSE, !.synRel = @ \ {0}])
    /\ UNCHANGED <<gitVars, envVars, clockVars, live, fsEvents, ext, mirror>>

\* the timer of copyFilesFromWorkingDir's finally block
ApplyRelease ==
    /\ 0 \in applyReleaseTimers
    /\ SetCtl([Ctl EXCEPT !.app = FALSE, !.appRel = @ \ {0}])
    /\ UNCHANGED <<gitVars, envVars, clockVars, live, fsEvents, ext, mirror>>

Pending == {r \in {syncTimer, debounceTimer} \cup syncReleaseTimers \cup applyReleaseTimers :
              r # NoTimer}
Tick(r, d) == IF r = NoTimer THEN NoTimer ELSE r - d
Age(a, d, cap) == Min(a + d, cap)
MinOf(S) == CHOOSE x \in S : \A y \in S : x <= y

\* d milliseconds pass; a timer that is due fires before more time passes
Advance(d) ==
    /\ \A r \in Pending : d <= r
    /\ syncTimer' = Tick(syncTimer, d)
    /\ debounceTimer' = Tick(debounceTimer, d)
    /\ syncReleaseTimers' = {r - d : r \in syncReleaseTimers}
    /\ applyReleaseTimers' = {r - d : r \in applyReleaseTimers}
    /\ lastEventAge' = [f \in Files |-> Age(lastEventAge[f], d, EVENT_THRESHOLD)]
    /\ sinceEvent' = Age(sinceEvent, d, DebounceDelay)
    /\ sinceSurvivor' = Age(sinceSurvivor, d, DebounceDelay)
    /\ sinceMirror' = Age(sinceMirror, d, ApplyGraceDelay)
    /\ sinceDelivered' = [f \in Files |-> Age(sinceDelivered[f], d, EVENT_THRESHOLD)]
    /\ UNCHANGED <<isEnabled, isSyncing, isApplyingRemoteChanges, watching, tasks,
                   gitVars, envVars, live, fsEvents, ext, mirror>>

\* time passes until the next timer is due
AdvanceToDue == Pending # {} /\ MinOf(Pending) > 0 /\ Advance(MinOf(Pending))

\* ------------------------------------------------------------- the environment
\* the user writes, creates or deletes a live file
LiveEdit(f, v) ==
    /\ editsLeft > 0
    /\ v # live[f]
    /\ live' = [live EXCEPT ![f] = v]
    /\ fsEvents' = IF watching THEN fsEvents \cup {f} ELSE fsEvents
    /\ editsLeft' = editsLeft - 1
    /\ UNCHANGED <<ctlVars, gitVars, cmdsLeft, remoteLeft, faultsLeft, clockVars, ext, mirror>>

\* another machine pushes a commit that changes the file f
RemoteCommit(f, v) ==
    /\ remoteLeft > 0
    /\ FreeCommitIds # {}
    /\ v # RemoteTree[f]
    /\ trees' = [trees EXCEPT ![NewCommitId] = [RemoteTree EXCEPT ![f] = v]]
    /\ remoteBranch' = Append(remoteBranch, NewCommitId)
    /\ remoteLeft' = remoteLeft - 1
    /\ UNCHANGED <<ctlVars, initialized, workingDirectoryExists, workTree, index, localBranch, originBranch,
                   cmdsLeft, editsLeft, faultsLeft, clockVars, live, fsEvents, ext, mirror>>

\* handleFileChange without its first check
handleFileChangeUnguarded(c) == [c EXCEPT !.debounceTimer = DebounceDelay]

\* handleFileChange without the clearTimeout of the pending timer: the timer
\* that is pending stays as it is
handleFileChangeKeepsTimer(c) ==
    IF ~c.en \/ c.syn \/ c.app THEN c
    ELSE IF c.debounceTimer # NoTimer THEN c
    ELSE [c EXCEPT !.debounceTimer = DebounceDelay]

\* SyncService.handleFileChange for an event that handleFileEvent let through
handleFileChange(c) ==
    IF ~c.en \/ c.syn \/ c.app THEN c
    ELSE [c EXCEPT !.debounceTimer = DebounceDelay]

\* handleFileEvent with the comparison "now - lastTime <= EVENT_THRESHOLD"
handleFileEventInclusive(f) ==
    /\ f \in fsEvents
    /\ fsEvents' = fsEvents \ {f}
    /\ LET counted == isEnabled /\ ~isSyncing /\ ~isApplyingRemoteChanges
           dropped == lastEventAge[f] <= EVENT_THRESHOLD
       IN /\ SetCtl(IF dropped THEN Ctl ELSE handleFileChange(Ctl))
          /\ lastEventAge' = IF dropped THEN lastEventAge ELSE [lastEventAge EXCEPT ![f] = 0]
          /\ sinceEvent' = IF counted THEN 0 ELSE sinceEvent
          /\ sinceSurvivor' = IF counted /\ ~dropped THEN 0 ELSE sinceSurvivor
          /\ sinceDelivered' = [sinceDelivered EXCEPT ![f] = 0]
          /\ UNCHANGED sinceMirror
    /\ UNCHANGED <<gitVars, envVars, live, ext, mirror>>

\* handleFileEvent: a watcher delivers the event of the path f
handleFileEvent(f) ==
    /\ f \in fsEvents
    /\ fsEvents' = fsEvents \ {f}
    /\ LET counted == isEnabled /\ ~isSyncing /\ ~isApplyingRemoteChanges
           dropped == lastEventAge[f] < EVENT_THRESHOLD
       IN /\ SetCtl(IF dropped THEN Ctl ELSE handleFileChange(Ctl))
          /\ lastEventAge' = IF dropped THEN lastEventAge ELSE [lastEventAge EXCEPT ![f] = 0]
          /\ sinceEvent' = IF counted THEN 0 ELSE sinceEvent
          /\ sinceSurvivor' = IF counted /\ ~dropped THEN 0 ELSE sinceSurvivor
          /\ sinceDelivered' = [sinceDelivered EXCEPT ![f] = 0]
          /\ UNCHANGED sinceMirror
    /\ UNCHANGED <<gitVars, envVars, live, ext, mirror>>

\* ------------------------------------------------------------- a task's steps
Done(c, t, v, threw) == \E k \in Configs : SetCtl(Return(c, t, tasks[t].ret, v, threw, k))
Goto(t, pc) == SetCtl(At(Ctl, t, pc, tasks[t].ret))
\* a git command or a file copy fails for a reason outside the program
Fault == faultsLeft > 0 /\ faultsLeft' = faultsLeft - 1
NoFault == UNCHANGED faultsLeft
other == <<cmdsLeft, editsLeft, remoteLeft, clockVars, live, fsEvents, ext, mirror>>

\* GitService.initialize that creates the working directory before it tests
\* the repository URL
GitInitializeNoUrlMkdir(t) ==
    /\ tasks[t].pc = "git_init"
    /\ workingDirectoryExists' = TRUE
    /\ UNCHANGED <<initialized, workTree, index, localBranch, originBranch,
                   remoteBranch, trees>>
    /\ SetCtl(Finish(Ctl, t, "error"))
    /\ UNCHANGED <<faultsLeft, other>>

\* GitService.initialize when settingsSync.git.repositoryUrl is empty: it
\* throws before it creates the working directory
GitInitializeNoUrl(t) ==
    /\ tasks[t].pc = "git_init"
    /\ UNCHANGED gitVars
    /\ SetCtl(Finish(Ctl, t, "error"))
    /\ UNCHANGED <<faultsLeft, other>>

\* GitService.initialize with a repository URL: the working directory is
\* created, then the git commands run; called by SyncService.initialize, which
\* then reads pullOnLaunch, and by GitService.reinitialize
GitInitialize(t) ==
    /\ tasks[t].pc = "git_init"
    /\ workingDirectoryExists' = TRUE
    /\ \/ /\ Fault
          /\ UNCHANGED <<initialized, workTree, index, localBranch, originBranch,
                         remoteBranch, trees>>
          /\ SetCtl(Finish(Ctl, t, "error"))
       \/ /\ NoFault
          /\ initialized' = TRUE
          /\ originBranch' = remoteBranch
          /\ IF localBranch = <<>>
             THEN /\ localBranch' = remoteBranch
                  /\ workTree' = RemoteTree
                  /\ index' = RemoteTree
             ELSE UNCHANGED <<localBranch, workTree, index>>
          /\ trees' = Gc(trees, localBranch', remoteBranch, remoteBranch)
          /\ UNCHANGED remoteBranch
          /\ IF tasks[t].kind = "reinitialize"
             THEN SetCtl(Finish(Ctl, t, "ok"))
             ELSE \E pullOnLaunch \in BOOLEAN :
                     SetCtl(IF pullOnLaunch THEN CallPull(Ctl, t, "init_pulled")
                            ELSE InitSetup(Ctl, t))
    /\ UNCHANGED other

\* GitService.reinitialize that leaves the initialized flag as it is
ReinitRmKeepsFlag(t) ==
    /\ tasks[t].pc = "reinit_rm"
    /\ \/ /\ Fault
          /\ UNCHANGED gitVars
          /\ SetCtl(Finish(Ctl, t, "error"))
       \/ /\ NoFault
          /\ workingDirectoryExists' = FALSE
          /\ workTree' = EmptyTree
          /\ index' = EmptyTree
          /\ localBranch' = <<>>
          /\ originBranch' = <<>>
          /\ trees' = Gc(trees, <<>>, <<>>, remoteBranch)
          /\ UNCHANGED <<initialized, remoteBranch>>
          /\ Goto(t, "git_init")
    /\ UNCHANGED other

\* GitService.reinitialize: the working directory is removed, which may fail;
\* then the initialized flag is cleared and initialize() is called
ReinitRm(t) ==
    /\ tasks[t].pc = "reinit_rm"
    /\ \/ /\ Fault
          /\ UNCHANGED gitVars
          /\ SetCtl(Finish(Ctl, t, "error"))
       \/ /\ NoFault
          /\ workingDirectoryExists' = FALSE
          /\ workTree' = EmptyTree
          /\ index' = EmptyTree
          /\ localBranch' = <<>>
          /\ originBranch' = <<>>
          /\ trees' = Gc(trees, <<>>, <<>>, remoteBranch)
          /\ initialized' = FALSE
          /\ UNCHANGED remoteBranch
          /\ Goto(t, "git_init")
    /\ UNCHANGED other

\* a hasChanges that reports changes whatever the status
GitStatusDirty(t) ==
    /\ tasks[t].pc = "git_status"
    /\ Done(Ctl, t, TRUE, FALSE)
    /\ UNCHANGED <<gitVars, faultsLeft, other>>

\* GitService.hasChanges
GitStatus(t) ==
    /\ tasks[t].pc = "git_status"
    /\ Done(Ctl, t, hasChanges, FALSE)
    /\ UNCHANGED <<gitVars, faultsLeft, other>>

\* git pull fails: a conflict, or a fault
PullFails ==
    /\ UNCHANGED gitVars
    /\ \/ Fault
       \/ ~PullPossible /\ NoFault

\* a tracked file has unstaged changes, or the index differs from HEAD
DirtyTracked ==
    \E f \in Files : (index[f] # 0 /\ workTree[f] # index[f]) \/ index[f] # HeadTree[f]

\* git pull --rebase fails: as git pull does, or because git refuses to rebase
\* over uncommitted changes of tracked files (it does unless rebase.autoStash
\* is set in the git configuration, which the program neither reads nor sets)
RebasePullFails ==
    \/ PullFails
    \/ DirtyTracked /\ UNCHANGED gitVars /\ NoFault

\* GitService.pull
GitPull(t) ==
    /\ tasks[t].pc = "git_pull"
    /\ \/ /\ GitPullOk /\ NoFault
          /\ Done([Ctl EXCEPT !.tasks[t].got = (Unpulled # <<>>)], t, TRUE, FALSE)
       \/ RebasePullFails /\ Done(Ctl, t, FALSE, TRUE)
    /\ UNCHANGED other

\* GitService.push: the pull before the commit, and the pull of the retry
PushPull(t) ==
    /\ tasks[t].pc \in {"push_pull", "push_rpull"}
    /\ \/ /\ GitPullOk /\ NoFault
          /\ Goto(t, IF tasks[t].pc = "push_pull" THEN "push_add" ELSE "push_radd")
       \/ RebasePullFails /\ Done(Ctl, t, FALSE, TRUE)
    /\ UNCHANGED other

PushAdd(t) ==
    /\ tasks[t].pc \in {"push_add", "push_radd"}
    /\ GitAdd
    /\ Goto(t, IF tasks[t].pc = "push_add" THEN "push_commit" ELSE "push_rcommit")
    /\ UNCHANGED <<faultsLeft, other>>

PushCommit(t) ==
    /\ tasks[t].pc \in {"push_commit", "push_rcommit"}
    /\ GitCommit
    /\ Goto(t, IF tasks[t].pc = "push_commit" THEN "push_push" ELSE "push_rpush")
    /\ UNCHANGED <<faultsLeft, other>>

\* git push fails: the remote rejects it, or a fault
PushFails ==
    /\ UNCHANGED gitVars
    /\ \/ Fault
       \/ ~PushAccepted /\ NoFault

\* the first git push: a failure leads to the reset and the prompt
PushPush(t) ==
    /\ tasks[t].pc = "push_push"
    /\ \/ GitPushOk /\ NoFault /\ Done(Ctl, t, TRUE, FALSE)
       \/ PushFails /\ SetCtl(At([Ctl EXCEPT !.tasks[t].rej = TRUE, !.tasks[t].tries = @ + 1],
                                 t, "push_reset", tasks[t].ret))
    /\ UNCHANGED other

\* git reset --hard HEAD~1, which fails when HEAD has no parent
PushReset(t) ==
    /\ tasks[t].pc = "push_reset"
    /\ IF Len(localBranch) >= 2
       THEN GitResetHard(Front(localBranch)) /\ Goto(t, "push_prompt")
       ELSE UNCHANGED gitVars /\ Done(Ctl, t, FALSE, TRUE)
    /\ UNCHANGED <<faultsLeft, other>>

\* the user answers 'Pull and Retry', or cancels or dismisses the message
PushPrompt(t) ==
    /\ tasks[t].pc = "push_prompt"
    /\ \/ Goto(t, "push_rpull")
       \/ Done(Ctl, t, FALSE, TRUE)
    /\ UNCHANGED <<gitVars, faultsLeft, other>>

\* the git push of the retry in a loop: a failure leads to the reset and the
\* prompt again
PushRetryPushLoops(t) ==
    /\ tasks[t].pc = "push_rpush"
    /\ \/ GitPushOk /\ NoFault /\ Done(Ctl, t, TRUE, FALSE)
       \/ PushFails /\ SetCtl(At([Ctl EXCEPT !.tasks[t].tries = @ + 1],
                                 t, "push_reset", tasks[t].ret))
    /\ UNCHANGED other

\* the git push of the retry: a failure ends push() with the conflict error
PushRetryPush(t) ==
    /\ tasks[t].pc = "push_rpush"
    /\ \/ GitPushOk /\ NoFault /\ Done(Ctl, t, TRUE, FALSE)
       \/ PushFails /\ Done(Ctl, t, FALSE, TRUE)
    /\ UNCHANGED other

\* GitService.forcePush
ForcePushPull(t) ==
    /\ tasks[t].pc = "fpush_pull"
    /\ \/ GitPullOk /\ NoFault /\ Goto(t, "fpush_add")
       \/ PullFails /\ Done(Ctl, t, FALSE, TRUE)
    /\ UNCHANGED other

ForcePushAdd(t) ==
    /\ tasks[t].pc = "fpush_add"
    /\ GitAdd
    /\ Goto(t, "fpush_commit")
    /\ UNCHANGED <<faultsLeft, other>>

ForcePushCommit(t) ==
    /\ tasks[t].pc = "fpush_commit"
    /\ GitCommit
    /\ Goto(t, "fpush_push")
    /\ UNCHANGED <<faultsLeft, other>>

ForcePushPush(t) ==
    /\ tasks[t].pc = "fpush_push"
    /\ \/ GitForcePushOk /\ NoFault /\ Done(Ctl, t, TRUE, FALSE)
       \/ UNCHANGED gitVars /\ Fault /\ Done(Ctl, t, FALSE, TRUE)
    /\ UNCHANGED other

\* GitService.forcePull: fetch, then rev-parse and reset --hard origin/<branch>
ForcePullFetch(t) ==
    /\ tasks[t].pc = "fpull_fetch"
    /\ \/ GitFetch /\ NoFault /\ Goto(t, "fpull_reset")
       \/ UNCHANGED gitVars /\ Fault /\ Done(Ctl, t, FALSE, TRUE)
    /\ UNCHANGED other

ForcePullReset(t) ==
    /\ tasks[t].pc = "fpull_reset"
    /\ GitResetHard(originBranch)
    /\ Done([Ctl EXCEPT !.tasks[t].tip = TipTree(originBranch)], t, TRUE, FALSE)
    /\ UNCHANGED <<faultsLeft, other>>

\* the files a glob of the patterns finds in the directory dir, then the
\* external files, which are tried whether they exist or not
Batch(dir) ==
    SelectSeq(FileOrder, LAMBDA f : f \in ExternalFiles \/ (f \in PatternFiles /\ dir[f] # 0))

\* the target of copyFile(source, target): nothing is copied when the source
\* does not exist
copyFile(source, target, f) ==
    IF source[f] # 0 THEN [target EXCEPT ![f] = source[f]] ELSE target

\* copyFilesToWorkingDir: the glob of the live directory
CopyToGlob(t) ==
    /\ tasks[t].pc = "copyTo_glob"
    /\ IF Batch(live) = <<>>
       THEN Done(Ctl, t, TRUE, FALSE)
       ELSE SetCtl([Ctl EXCEPT !.tasks[t].pc = "copyTo_file", !.tasks[t].todo = Batch(live)])
    /\ UNCHANGED <<gitVars, faultsLeft, other>>

\* copyFilesToWorkingDir: one copyFile, which may fail
CopyToFile(t) ==
    /\ tasks[t].pc = "copyTo_file"
    /\ LET f == Head(tasks[t].todo)
           rest == Tail(tasks[t].todo)
       IN \/ /\ NoFault
             /\ workTree' = copyFile(live, workTree, f)
             /\ workingDirectoryExists' = (workingDirectoryExists \/ live[f] # 0)
             /\ IF rest = <<>>
                THEN Done([Ctl EXCEPT !.tasks[t].todo = <<>>], t, TRUE, FALSE)
                ELSE SetCtl([Ctl EXCEPT !.tasks[t].todo = rest])
          \/ /\ Fault
             /\ live[f] # 0
             /\ UNCHANGED <<workTree, workingDirectoryExists>>
             /\ Done([Ctl EXCEPT !.tasks[t].todo = <<>>], t, FALSE, TRUE)
    /\ UNCHANGED <<initialized, index, localBranch, originBranch, remoteBranch, trees, other>>

\* the finally block of copyFilesFromWorkingDir
ApplyEnd(c) == [c EXCEPT !.appRel = @ \cup {ApplyGraceDelay}]

\* copyFilesFromWorkingDir: the glob of the working tree
CopyFromGlob(t) ==
    /\ tasks[t].pc = "copyFrom_glob"
    /\ IF Batch(workTree) = <<>>
       THEN /\ Done(ApplyEnd(Ctl), t, TRUE, FALSE)
            /\ sinceMirror' = 0
       ELSE /\ SetCtl([Ctl EXCEPT !.tasks[t].pc = "copyFrom_file",
                                  !.tasks[t].todo = Batch(workTree)])
            /\ UNCHANGED sinceMirror
    /\ UNCHANGED <<gitVars, envVars, lastEventAge, sinceEvent, sinceSurvivor, sinceDelivered,
                   live, fsEvents, ext, mirror>>

\* copyFilesFromWorkingDir: one copyFile, which may fail
CopyFromFile(t) ==
    /\ tasks[t].pc = "copyFrom_file"
    /\ LET f == Head(tasks[t].todo)
           rest == Tail(tasks[t].todo)
       IN \/ /\ NoFault
             /\ live' = copyFile(workTree, live, f)
             /\ fsEvents' = IF watching /\ workTree[f] # 0 THEN fsEvents \cup {f} ELSE fsEvents
             /\ IF rest = <<>>
                THEN /\ Done(ApplyEnd([Ctl EXCEPT !.tasks[t].todo = <<>>]), t, TRUE, FALSE)
                     /\ sinceMirror' = 0
                ELSE /\ SetCtl([Ctl EXCEPT !.tasks[t].todo = rest])
                     /\ UNCHANGED sinceMirror
          \/ /\ Fault
             /\ workTree[f] # 0
             /\ UNCHANGED <<live, fsEvents>>
             /\ Done(ApplyEnd([Ctl EXCEPT !.tasks[t].todo = <<>>]), t, FALSE, TRUE)
             /\ sinceMirror' = 0
    /\ UNCHANGED <<gitVars, cmdsLeft, editsLeft, remoteLeft, lastEventAge, sinceEvent,
                   sinceSurvivor, sinceDelivered, ext, mirror>>

\* ExtensionService.pushExtensions and pullExtensions: each returns, or throws
\* the error it caught
PushExtensions(t) ==
    /\ tasks[t].pc = "ext_push"
    /\ \/ NoFault /\ Done(Ctl, t, TRUE, FALSE)
       \/ Fault /\ Done(Ctl, t, FALSE, TRUE)
    /\ UNCHANGED <<gitVars, other>>

PullExtensions(t) ==
    /\ tasks[t].pc = "ext_pull"
    /\ \/ NoFault /\ Done(Ctl, t, TRUE, FALSE)
       \/ Fault /\ Done(Ctl, t, FALSE, TRUE)
    /\ UNCHANGED <<gitVars, other>>

\* ------------------------------------------------------------- the specification
\* the service as constructed: nothing initialized, no repository cloned
Init ==
    /\ isEnabled = FALSE
    /\ isSyncing = FALSE
    /\ isApplyingRemoteChanges = FALSE
    /\ syncTimer = NoTimer
    /\ debounceTimer = NoTimer
    /\ syncReleaseTimers = {}
    /\ applyReleaseTimers = {}
    /\ watching = FALSE
    /\ lastEventAge = [f \in Files |-> EVENT_THRESHOLD]
    /\ sinceDelivered = [f \in Files |-> EVENT_THRESHOLD]
    /\ tasks = [t \in TaskIds |-> Idle]
    /\ live = InitTree
    /\ fsEvents = {}
    /\ initialized = FALSE
    /\ workingDirectoryExists = FALSE
    /\ workTree = EmptyTree
    /\ index = EmptyTree
    /\ localBranch = <<>>
    /\ originBranch = <<>>
    /\ remoteBranch = <<1>>
    /\ trees = [i \in CommitIds |-> IF i = 1 THEN InitTree ELSE EmptyTree]
    /\ cmdsLeft = MaxCmds
    /\ editsLeft = MaxEdits
    /\ remoteLeft = MaxRemoteCommits
    /\ faultsLeft = MaxFaults
    /\ sinceEvent = DebounceDelay
    /\ sinceSurvivor = DebounceDelay
    /\ sinceMirror = ApplyGraceDelay
    /\ ext = ExtIdle
    /\ mirror = MirrorIdle

\* the service after initialize() has completed on a remote that holds one
\* commit: the repository is cloned and clean, the watchers and the periodic
\* timer are set up, the service is enabled and idle
ServiceReady ==
    /\ isEnabled = TRUE
    /\ isSyncing = FALSE
    /\ isApplyingRemoteChanges = FALSE
    /\ syncTimer = SyncInterval
    /\ debounceTimer = NoTimer
    /\ syncReleaseTimers = {}
    /\ applyReleaseTimers = {}
    /\ watching = TRUE
    /\ lastEventAge = [f \in Files |-> EVENT_THRESHOLD]
    /\ sinceDelivered = [f \in Files |-> EVENT_THRESHOLD]
    /\ tasks = [t \in TaskIds |->
                  IF t = 1 THEN [Idle EXCEPT !.res = "ok", !.kind = "init"] ELSE Idle]
    /\ live = InitTree
    /\ fsEvents = {}
    /\ initialized = TRUE
    /\ workingDirectoryExists = TRUE
    /\ workTree = InitTree
    /\ index = InitTree
    /\ localBranch = <<1>>
    /\ originBranch = <<1>>
    /\ remoteBranch = <<1>>
    /\ trees = [i \in CommitIds |-> IF i = 1 THEN InitTree ELSE EmptyTree]
    /\ sinceEvent = DebounceDelay
    /\ sinceSurvivor = DebounceDelay
    /\ sinceMirror = ApplyGraceDelay

Ready == ServiceReady /\ ext = ExtIdle /\ mirror = MirrorIdle

Budget(c, e, r, f) ==
    /\ cmdsLeft = c
    /\ editsLeft = e
    /\ remoteLeft = r
    /\ faultsLeft = f

Step(t) ==
    \/ GitInitialize(t) \/ GitStatus(t) \/ GitPull(t)
    \/ PushPull(t) \/ PushAdd(t) \/ PushCommit(t) \/ PushPush(t)
    \/ PushReset(t) \/ PushPrompt(t) \/ PushRetryPush(t)
    \/ ForcePushPull(t) \/ ForcePushAdd(t) \/ ForcePushCommit(t) \/ ForcePushPush(t)
    \/ ForcePullFetch(t) \/ ForcePullReset(t)
    \/ CopyToGlob(t) \/ CopyToFile(t) \/ CopyFromGlob(t) \/ CopyFromFile(t)
    \/ PushExtensions(t) \/ PullExtensions(t)
    \/ GitInitializeNoUrl(t) \/ ReinitRm(t)

Next ==
    \/ CmdInitialize \/ CmdSync \/ CmdForcePush \/ CmdForcePull \/ toggleEnabled
    \/ CmdReinitialize \/ configChanged \/ extensionsChanged
    \/ PeriodicFire \/ DebounceFire \/ SyncRelease \/ ApplyRelease
    \/ \E d \in Deltas : Advance(d)
    \/ AdvanceToDue
    \/ \E f \in Files, v \in Contents : LiveEdit(f, v)
    \/ \E f \in Files, v \in Contents : RemoteCommit(f, v)
    \/ \E f \in Files : handleFileEvent(f)
    \/ \E t \in TaskIds : Step(t)

Spec == Init /\ [][Next]_vars

\* ------------------------------------------------------------- the sync pipeline
\* the enabled service handling file events, timers and the sync command
SyncStep(t) ==
    \/ GitStatus(t) \/ GitPull(t)
    \/ PushPull(t) \/ PushAdd(t) \/ PushCommit(t) \/ PushPush(t)
    \/ PushReset(t) \/ PushPrompt(t) \/ PushRetryPush(t)
    \/ CopyToGlob(t) \/ CopyToFile(t) \/ CopyFromGlob(t) \/ CopyFromFile(t)
    \/ PushExtensions(t) \/ PullExtensions(t)

NextSync ==
    \/ CmdSync \/ toggleEnabled
    \/ PeriodicFire \/ DebounceFire \/ SyncRelease \/ ApplyRelease
    \/ \E d \in Deltas : Advance(d)
    \/ AdvanceToDue
    \/ \E f \in Files, v \in Contents : LiveEdit(f, v)
    \/ \E f \in Files, v \in Contents : RemoteCommit(f, v)
    \/ \E f \in Files : handleFileEvent(f)
    \/ \E t \in TaskIds : SyncStep(t)

InitSync == Ready /\ Budget(MaxCmds, MaxEdits, MaxRemoteCommits, MaxFaults)

SpecSync == InitSync /\ [][NextSync]_vars

\* ------------------------------------------------------------- activation
\* the service as constructed, with the working directory as an earlier session
\* left it on disk: the local branch lb, its tree in the index, and the working
\* tree wt
Cold(lb, wt) ==
    /\ isEnabled = FALSE
    /\ isSyncing = FALSE
    /\ isApplyingRemoteChanges = FALSE
    /\ syncTimer = NoTimer
    /\ debounceTimer = NoTimer
    /\ syncReleaseTimers = {}
    /\ applyReleaseTimers = {}
    /\ watching = FALSE
    /\ lastEventAge = [f \in Files |-> EVENT_THRESHOLD]
    /\ sinceDelivered = [f \in Files |-> EVENT_THRESHOLD]
    /\ tasks = [t \in TaskIds |-> Idle]
    /\ live = InitTree
    /\ fsEvents = {}
    /\ initialized = FALSE
    /\ workingDirectoryExists = (lb # <<>>)
    /\ workTree = wt
    /\ index = IF lb = <<>> THEN EmptyTree ELSE InitTree
    /\ localBranch = lb
    /\ originBranch = lb
    /\ remoteBranch = <<1>>
    /\ trees = [i \in CommitIds |-> IF i = 1 THEN InitTree ELSE EmptyTree]
    /\ sinceEvent = DebounceDelay
    /\ sinceSurvivor = DebounceDelay
    /\ sinceMirror = ApplyGraceDelay
    /\ ext = ExtIdle
    /\ mirror = MirrorIdle

\* a file of the working tree that an earlier session changed and did not commit
DirtyTree == [f \in Files |-> MaxContent]

\* no clone yet, a clean clone, or a clone with an uncommitted change
InitCold ==
    /\ Cold(<<>>, EmptyTree) \/ Cold(<<1>>, InitTree) \/ Cold(<<1>>, DirtyTree)
    /\ Budget(MaxColdCmds, 0, MaxRemoteCommits, MaxFaults)

ColdStep(t) == GitInitialize(t) \/ SyncStep(t)

NextCold ==
    \/ CmdInitialize \/ CmdSync \/ toggleEnabled
    \/ PeriodicFire \/ SyncRelease \/ ApplyRelease
    \/ \E d \in Deltas : Advance(d)
    \/ AdvanceToDue
    \/ \E f \in Files, v \in Contents : RemoteCommit(f, v)
    \/ \E t \in TaskIds : ColdStep(t)

SpecCold == InitCold /\ [][NextCold]_vars

\* the labels of the calls that the body of sync() makes
SyncLabels == {"sync_status1", "sync_copied", "sync_extpushed", "sync_pushed",
               "sync_pulled", "sync_status2", "sync_applied", "sync_extpulled"}
\* the tasks that are inside the body of sync()
SyncBodies == {t \in TaskIds : tasks[t].ret \in SyncLabels}

\* C1: at most one sync() body is in progress; from the moment a body sets the
\* syncing guard until the guard's release timer fires the guard is true, no
\* other task is in a sync() body, and no release is pending while a body runs
OneSyncBody ==
    /\ Cardinality(SyncBodies) <= 1
    /\ SyncBodies # {} => isSyncing /\ syncReleaseTimers = {}
    /\ syncReleaseTimers # {} => isSyncing /\ Cardinality(syncReleaseTimers) = 1

\* a sync() body is in progress and the sync() call of a timer has returned at
\* the guard
OneSyncBodyWitness ==
    \E t, u \in TaskIds :
        /\ t \in SyncBodies
        /\ tasks[t].pc \in {"git_pull", "push_push", "copyFrom_file"}
        /\ tasks[u].res = "skipped"
        /\ tasks[u].kind \in {"periodic", "debounce"}

\* what a sync() call leaves alone when the syncing guard turns it away
GuardedFrame ==
    /\ UNCHANGED <<gitVars, live>>
    /\ UNCHANGED <<isEnabled, isSyncing, isApplyingRemoteChanges>>
    /\ UNCHANGED <<debounceTimer, syncReleaseTimers, applyReleaseTimers>>
\* the slot of the sync() call shows that it returned at the guard
Skipped(t) == tasks'[t].pc = "idle" /\ tasks'[t].res = "skipped"

\* C2: a sync() call made while the syncing guard is true (by the sync command,
\* by the periodic callback or by the debounce callback) returns without error
\* and changes neither the repository, the remote, the live directory, the
\* guards nor the timers; the periodic callback, as it does after every sync()
\* that returns, arms the next periodic timer
GuardedSyncIsNoOp ==
    [][isSyncing /\ isEnabled =>
          /\ CmdSync => GuardedFrame /\ UNCHANGED syncTimer /\ Skipped(NewTask)
          /\ PeriodicFire => GuardedFrame /\ syncTimer' = SyncInterval /\ Skipped(NewTask)
          /\ \A t \in TaskIds :
                GitStatus(t) /\ tasks[t].ret = "deb_status" /\ hasChanges =>
                    GuardedFrame /\ UNCHANGED syncTimer /\ Skipped(t)]_vars

\* the sync command was run while the guard was held and has returned at it
GuardedSyncIsNoOpWitness ==
    /\ isSyncing
    /\ \E t \in TaskIds :
          tasks[t].pc = "idle" /\ tasks[t].kind = "sync" /\ tasks[t].res = "skipped"

\* ------------------------------------------------------------- bursts of file events
\* the user edits the live files at intervals shorter than the thresholds; no
\* command is run, no git command fails and the remote does not move
DebounceStep(t) ==
    \/ GitStatus(t) \/ GitPull(t)
    \/ PushPull(t) \/ PushAdd(t) \/ PushCommit(t) \/ PushPush(t)
    \/ CopyToGlob(t) \/ CopyToFile(t) \/ CopyFromGlob(t) \/ CopyFromFile(t)
    \/ PushExtensions(t) \/ PullExtensions(t)

NextDebounce ==
    \/ PeriodicFire \/ DebounceFire \/ SyncRelease \/ ApplyRelease
    \/ \E d \in FineDeltas : Advance(d)
    \/ AdvanceToDue
    \/ \E f \in Files, v \in Contents : LiveEdit(f, v)
    \/ \E f \in Files : handleFileEvent(f)
    \/ \E t \in TaskIds : DebounceStep(t)

InitDebounce == Ready /\ Budget(0, MaxBurst, 0, 0)

SpecDebounce == InitDebounce /\ [][NextDebounce]_vars

ForceStep(t) ==
    \/ GitStatus(t) \/ GitPull(t)
    \/ ForcePushPull(t) \/ ForcePushAdd(t) \/ ForcePushCommit(t) \/ ForcePushPush(t)
    \/ ForcePullFetch(t) \/ ForcePullReset(t)
    \/ CopyToGlob(t) \/ CopyToFile(t) \/ CopyFromGlob(t) \/ CopyFromFile(t)
    \/ PushExtensions(t) \/ PullExtensions(t)

NextForce ==
    \/ CmdForcePush \/ CmdForcePull
    \/ PeriodicFire \/ DebounceFire \/ SyncRelease \/ ApplyRelease
    \/ \E d \in Deltas : Advance(d)
    \/ AdvanceToDue
    \/ \E f \in Files, v \in Contents : RemoteCommit(f, v)
    \/ \E f \in Files : handleFileEvent(f)
    \/ \E t \in TaskIds : ForceStep(t)

InitForce == Ready /\ Budget(MaxOverrides, 0, MaxRemoteCommits, 0)

SpecForce == InitForce /\ [][NextForce]_vars

\* the labels of the calls that forcePush() makes
ForcePushLabels == {"fpush_copied", "fpush_ext", "fpush_done"}

\* C4: there is no state in which a forcePush() step and a sync() body are both
\* in progress
NoForcePushDuringSync ==
    ~\E t, u \in TaskIds : tasks[t].ret \in ForcePushLabels /\ u \in SyncBodies

\* the tasks that are inside copyFilesFromWorkingDir
Mirrors == {t \in TaskIds : tasks[t].pc \in {"copyFrom_glob", "copyFrom_file"}}

\* C5: applyingRemoteChanges is true while a working-tree to live mirror is in
\* progress and for the whole grace period after a mirror has ended
ApplyGuardHeld ==
    /\ Mirrors # {} => isApplyingRemoteChanges
    /\ sinceMirror < ApplyGraceDelay => isApplyingRemoteChanges

\* C6: a file event that is delivered while applyingRemoteChanges is true, while
\* syncing is true or while the service is disabled neither arms nor restarts
\* the debounce timer, starts no task and changes no guard and no other timer
GuardedEventIgnored ==
    [][\A f \in Files :
          handleFileEvent(f) /\ (isApplyingRemoteChanges \/ isSyncing \/ ~isEnabled) =>
              UNCHANGED <<ctlVars, gitVars, live>>]_vars

\* an event that handleFileEvent let through has just been delivered while
\* applyingRemoteChanges was true, and no debounce timer is pending
GuardedEventIgnoredWitness ==
    /\ isApplyingRemoteChanges /\ ~isSyncing /\ isEnabled
    /\ applyReleaseTimers # {}
    /\ \E f \in Files : lastEventAge[f] = 0
    /\ sinceSurvivor > 0
    /\ debounceTimer = NoTimer

\* ------------------------------------------------------------- the release of the guards
\* the periodic sync and the forcePull command on the enabled service, with a
\* git command or a file copy that fails; every operation that a task awaits
\* ends, every timer that is due fires, and time passes
LiveStep(t) ==
    \/ GitStatus(t) \/ GitPull(t)
    \/ PushPull(t) \/ PushAdd(t) \/ PushCommit(t) \/ PushPush(t)
    \/ PushReset(t) \/ PushPrompt(t) \/ PushRetryPush(t)
    \/ ForcePullFetch(t) \/ ForcePullReset(t)
    \/ CopyToGlob(t) \/ CopyToFile(t) \/ CopyFromGlob(t) \/ CopyFromFile(t)
    \/ PushExtensions(t) \/ PullExtensions(t)

NextLive ==
    \/ CmdForcePull
    \/ PeriodicFire \/ DebounceFire \/ SyncRelease \/ ApplyRelease
    \/ \E d \in Deltas : Advance(d)
    \/ AdvanceToDue
    \/ \E f \in Files, v \in Contents : RemoteCommit(f, v)
    \/ \E f \in Files : handleFileEvent(f)
    \/ \E t \in TaskIds : LiveStep(t)

InitLive == Ready /\ Budget(MaxCmds, 0, MaxRemoteCommits, MaxFaults)

Fairness ==
    /\ WF_vars(PeriodicFire) /\ WF_vars(DebounceFire)
    /\ WF_vars(SyncRelease) /\ WF_vars(ApplyRelease)
    /\ WF_vars(AdvanceToDue)
    /\ \A t \in TaskIds : WF_vars(LiveStep(t))

SpecLive == InitLive /\ [][NextLive]_vars /\ Fairness

\* C7: when every awaited operation ends and every due timer fires, the syncing
\* guard that a sync() call has set is released again, whether its body
\* returns or throws, and applyingRemoteChanges is false again after every
\* working-tree to live mirror, whether it returns or throws
GuardsReleased ==
    /\ isSyncing ~> ~isSyncing
    /\ isApplyingRemoteChanges ~> ~isApplyingRemoteChanges

\* the body of a sync() has thrown: the guard is still set and its release is
\* pending
GuardsReleasedWitness ==
    /\ isSyncing
    /\ syncReleaseTimers # {}
    /\ \E t \in TaskIds :
          tasks[t].pc = "idle" /\ tasks[t].kind = "periodic" /\ tasks[t].res = "error"

\* C31: while the service is enabled the periodic scheduler keeps running: the
\* step that ends a periodic callback, whether its sync() returned or threw,
\* leaves the periodic timer armed, and the timer is pending again and again
PeriodicKeepsRunning ==
    /\ [][\A t \in TaskIds :
            (/\ isEnabled /\ isEnabled'
             /\ tasks'[t].kind = "periodic" /\ tasks'[t].pc = "idle"
             /\ tasks'[t] # tasks[t])
            => syncTimer' # NoTimer]_vars
    /\ []<>(isEnabled => syncTimer # NoTimer)

\* C8: a sync() that found no local changes and whose pull brought commits of
\* the remote branch goes on, after its second look at git status, to mirror
\* the working tree to the live directory
PulledIsMirrored ==
    [][\A t \in TaskIds :
          GitStatus(t) /\ tasks[t].ret = "sync_status2" /\ tasks[t].got =>
              tasks'[t].pc = "copyFrom_glob"]_vars

\* the task t is in push() after its first git push failed, at the prompt or
\* in the retry, and this step ends push() with an error
PushThrows(t) ==
    /\ tasks[t].pc \in {"push_prompt", "push_rpull", "push_rpush"}
    /\ tasks[t].rej
    /\ tasks'[t].pc = "idle"
    /\ tasks'[t].res = "error"

\* C9: when push() ends with an error after its first git push failed (the
\* user cancelled, or the retry failed too), the local branch holds as many
\* unpushed commits as when push() was called
PushErrorLeavesNoCommit ==
    [][\A t \in TaskIds : PushThrows(t) => Len(Unpushed') = tasks[t].u0]_vars

\* the first git push of the push() of task t is accepted: push() returns
PushReturns(t) == PushPush(t) /\ tasks'[t].pc = "idle" /\ tasks'[t].res = "ok"

\* C10 as stated: a push() that was called with no unpushed commit and whose
\* git push the remote accepts adds exactly one commit to the remote branch
\* and leaves the local branch equal to the remote branch
PushAddsOneCommit ==
    [][\A t \in TaskIds :
          PushReturns(t) /\ tasks[t].u0 = 0 =>
              /\ Len(remoteBranch') = Len(remoteBranch) + 1
              /\ localBranch' = remoteBranch']_vars

\* C10: the commit step of push() adds one commit to the local branch when
\* the staged tree differs from HEAD and none otherwise; a push() that was
\* called with no unpushed commit and whose git push the remote accepts adds
\* that commit, if there is one, and nothing else to the remote branch and
\* leaves the local branch equal to the remote branch
PushAddsStagedCommit ==
    [][\A t \in TaskIds :
          /\ PushCommit(t) /\ tasks[t].pc = "push_commit" =>
                Len(localBranch') = Len(localBranch) + (IF index # HeadTree THEN 1 ELSE 0)
          /\ PushReturns(t) /\ tasks[t].u0 = 0 =>
                /\ localBranch' = remoteBranch'
                /\ remoteBranch' = remoteBranch \o Unpushed
                /\ Len(Unpushed) <= 1]_vars

\* push() is at its git push with nothing committed: the staged tree was HEAD
PushAddsStagedCommitWitness ==
    \E t \in TaskIds :
        /\ tasks[t].pc = "push_push"
        /\ tasks[t].u0 = 0
        /\ localBranch = remoteBranch

\* the program counters of a task inside GitService.push()
PushPcs == {"push_pull", "push_add", "push_commit", "push_push", "push_reset",
            "push_prompt", "push_rpull", "push_radd", "push_rcommit", "push_rpush"}

\* C11 as stated: a push() whose first git push failed does not end before it
\* has attempted the git push of the retry
RejectedPushRetries ==
    [][\A t \in TaskIds :
          tasks[t].pc \in PushPcs /\ tasks[t].rej /\ tasks'[t].pc \notin PushPcs =>
              tasks[t].pc = "push_rpush"]_vars

\* C11: within one push() the git push is attempted at most twice; the retry
\* (pull --rebase, add, commit, push) is entered only from the prompt that
\* follows the first failure, and only once; a git push of the retry that
\* fails ends push(), and the sync() that called it, with an error
PushRetriesAtMostOnce ==
    [][\A t \in TaskIds :
          /\ PushPush(t) => tasks[t].tries = 0
          /\ PushRetryPush(t) => tasks[t].tries = 1 /\ tasks'[t].pc = "idle"
          /\ PushRetryPush(t) /\ (~PushAccepted \/ faultsLeft' < faultsLeft) =>
                tasks'[t].res = "error"
          /\ tasks'[t].pc = "push_rpull" /\ tasks[t].pc # "push_rpull" =>
                tasks[t].pc = "push_prompt" /\ tasks[t].tries = 1]_vars

\* the first git push failed, the user chose the retry, and the git push of
\* the retry is about to be rejected: the remote holds a commit the local
\* branch lacks
PushRetriesAtMostOnceWitness ==
    \E t \in TaskIds :
        /\ tasks[t].pc = "push_rpush"
        /\ tasks[t].tries = 1
        /\ ~PushAccepted

\* C12: when the reset of GitService.forcePull() has succeeded, the working
\* tree equals the tree of the fetched remote tip, whatever the local branch,
\* the index and the working tree held before
ForcePullMatchesRemote ==
    [][\A t \in TaskIds :
          ForcePullReset(t) => workTree' = TipTree(originBranch)']_vars

\* the step in which the forcePull() of task t returns without an error
ForcePullReturns(t) ==
    /\ tasks[t].kind = "forcePull"
    /\ tasks[t].pc # "idle"
    /\ tasks'[t].pc = "idle"
    /\ tasks'[t].res = "ok"

\* C13: when SyncService.forcePull() returns without an error, every file of
\* the remote tip that its reset checked out has in the live directory the
\* content of that tip, or of the tip the remote branch has by now
ForcePullAppliesRemote ==
    [][\A t \in TaskIds :
          ForcePullReturns(t) =>
              \A f \in Files :
                  tasks[t].tip[f] # 0 =>
                      live'[f] \in {tasks[t].tip[f], TipTree(remoteBranch)'[f]}]_vars

\* C14: when the git push -f of GitService.forcePush() has succeeded, the
\* remote branch is the local branch, commit for commit, and so their tips are
\* the same commit with the same tree
ForcePushReplacesRemote ==
    [][\A t \in TaskIds :
          ForcePushPush(t) /\ faultsLeft' = faultsLeft =>
              /\ remoteBranch' = localBranch'
              /\ TipTree(remoteBranch)' = TipTree(localBranch)']_vars

\* a forcePush() has returned without an error and the commit that another
\* machine had pushed is no longer in the remote branch
ForcePushReplacesRemoteWitness ==
    \E t \in TaskIds :
        /\ tasks[t].kind = "forcePush"
        /\ tasks[t].pc = "idle"
        /\ tasks[t].res = "ok"
        /\ remoteLeft < MaxRemoteCommits
        /\ Len(remoteBranch) = 1
        /\ remoteBranch = localBranch

\* C15: a sync() call made while the service is disabled returns without an
\* error and changes neither the repository, the remote, the live directory,
\* the guards nor the timers; a sync() call made while the service is enabled,
\* no sync is in progress and the GitService was never initialized throws, and
\* leaves the syncing guard false, with no release of it pending, and the
\* repository and the live directory as they were
DisabledOrColdSync ==
    [][/\ CmdSync /\ ~isEnabled =>
             /\ GuardedFrame /\ UNCHANGED syncTimer
             /\ tasks'[NewTask].pc = "idle" /\ tasks'[NewTask].res = "disabled"
       /\ (CmdSync \/ PeriodicFire) /\ isEnabled /\ ~isSyncing /\ ~initialized =>
             /\ tasks'[NewTask].pc = "idle" /\ tasks'[NewTask].res = "error"
             /\ ~isSyncing' /\ syncReleaseTimers' = syncReleaseTimers
             /\ UNCHANGED <<gitVars, live>>]_vars

\* the sync command was run on the enabled service before any initialize() had
\* succeeded, and has thrown
DisabledOrColdSyncWitness ==
    /\ isEnabled /\ ~initialized /\ ~isSyncing
    /\ \E t \in TaskIds :
          tasks[t].pc = "idle" /\ tasks[t].kind = "sync" /\ tasks[t].res = "error"

\* an awaited call of the task t fails in this step
StepFails(t) ==
    \/ faultsLeft' < faultsLeft
    \/ tasks[t].pc = "git_pull" /\ ~PullPossible

\* C20: an initialize() whose gitService.initialize() has succeeded ends
\* without an error, with the watchers and the periodic timer set up and the
\* service enabled, also when its pull, its mirror or its pullExtensions fails;
\* an initialize() whose gitService.initialize() fails ends with an error and
\* leaves the enabled flag, the watchers and the timer as they were
InitializeSurvivesPull ==
    [][\A t \in TaskIds :
          /\ tasks[t].kind = "init" /\ tasks[t].pc \notin {"idle", "git_init"} =>
                /\ (GitPull(t) \/ CopyFromFile(t) \/ PullExtensions(t)) /\ StepFails(t) =>
                      tasks'[t].pc = "idle"
                /\ tasks'[t].pc = "idle" =>
                      /\ tasks'[t].res = "ok"
                      /\ isEnabled' /\ watching' /\ syncTimer' = SyncInterval
          /\ GitInitialize(t) /\ StepFails(t) =>
                /\ tasks'[t].pc = "idle" /\ tasks'[t].res = "error"
                /\ UNCHANGED <<isEnabled, watching, syncTimer>>]_vars

\* the only command run was initialize, one of its awaited calls after
\* gitService.initialize() has failed, and it has ended without an error with
\* the service enabled
InitializeSurvivesPullWitness ==
    /\ cmdsLeft = MaxColdCmds - 1
    /\ faultsLeft < MaxFaults
    /\ tasks[1].kind = "init" /\ tasks[1].pc = "idle" /\ tasks[1].res = "ok"
    /\ isEnabled /\ watching /\ syncTimer = SyncInterval

\* ------------------------------------------------------------- the periodic scheduler
\* the periodic sync on the enabled service while the user toggles it off and
\* on; the remote moves and a git command may fail; no file is edited, so the
\* syncs find nothing to push; every operation that a task awaits ends, every
\* timer that is due fires, and time passes
ToggleStep(t) == GitStatus(t) \/ GitPull(t)

NextToggle ==
    \/ toggleEnabled
    \/ PeriodicFire \/ SyncRelease
    \/ \E d \in Deltas : Advance(d)
    \/ AdvanceToDue
    \/ \E f \in Files, v \in Contents : RemoteCommit(f, v)
    \/ \E t \in TaskIds : ToggleStep(t)

InitToggle == Ready /\ Budget(MaxToggles, 0, MaxRemoteCommits, MaxFaults)

ToggleFairness ==
    /\ WF_vars(PeriodicFire)
    /\ WF_vars(SyncRelease)
    /\ WF_vars(AdvanceToDue)
    /\ \A t \in TaskIds : WF_vars(ToggleStep(t))

SpecToggle == InitToggle /\ [][NextToggle]_vars /\ ToggleFairness

\* the periodic callbacks that are in flight
PeriodicRuns == {t \in TaskIds : tasks[t].kind = "periodic" /\ tasks[t].pc # "idle"}

\* C16: no periodic timer is pending while the sync() that a periodic callback
\* started is in progress, and no two periodic callbacks are in progress at the
\* same time
PeriodicArmedAfterSync ==
    /\ PeriodicRuns # {} => syncTimer = NoTimer
    /\ Cardinality(PeriodicRuns) <= 1

\* C17: toggleEnabled flips the enabled flag; no periodic callback enters
\* sync() while the flag is false; the call that makes the flag true arms the
\* periodic timer; and, when every due timer fires and every awaited operation
\* ends, an enabled service with a pending periodic timer and no periodic sync
\* in progress gets a periodic sync in progress, unless it is disabled first
ToggleStartsAndStops ==
    /\ [][/\ toggleEnabled => isEnabled' = ~isEnabled
          /\ toggleEnabled /\ ~isEnabled => syncTimer' = SyncInterval
          /\ PeriodicFire /\ ~isEnabled => tasks' = tasks /\ UNCHANGED isSyncing /\ syncTimer' = NoTimer
          /\ \A t \in TaskIds :
                tasks[t].pc = "idle" /\ tasks'[t].pc # "idle" /\ tasks'[t].kind = "periodic" =>
                    isEnabled]_vars
    /\ (isEnabled /\ syncTimer # NoTimer /\ PeriodicRuns = {}) ~>
           (~isEnabled \/ PeriodicRuns # {})

\* the service was disabled and enabled again, the timer that enable() armed
\* has fired, and the sync() of its callback is in progress
ToggleStartsAndStopsWitness ==
    /\ isEnabled
    /\ cmdsLeft = MaxToggles - 2
    /\ syncTimer = NoTimer
    /\ PeriodicRuns # {}

\* ------------------------------------------------------------- disposal
\* the enabled service handling file events and timers until the extension is
\* deactivated; every operation that a task awaits ends, every timer that is
\* due fires, and time passes
NextDispose ==
    \/ dispose
    \/ PeriodicFire \/ DebounceFire \/ SyncRelease \/ ApplyRelease
    \/ \E d \in Deltas : Advance(d)
    \/ AdvanceToDue
    \/ \E f \in Files, v \in Contents : LiveEdit(f, v)
    \/ \E f \in Files, v \in Contents : RemoteCommit(f, v)
    \/ \E f \in Files : handleFileEvent(f)
    \/ \E t \in TaskIds : SyncStep(t)

InitDispose == Ready /\ Budget(MaxCmds, MaxEdits, MaxRemoteCommits, 0)

DisposeFairness ==
    /\ WF_vars(PeriodicFire) /\ WF_vars(DebounceFire)
    /\ WF_vars(SyncRelease) /\ WF_vars(ApplyRelease)
    /\ WF_vars(AdvanceToDue)
    /\ \A t \in TaskIds : WF_vars(SyncStep(t))

SpecDispose == InitDispose /\ [][NextDispose]_vars /\ DisposeFairness

\* dispose() has been called: the watchers are closed
Disposed == ~watching

\* C18: once dispose() has been called no task enters the body of sync(),
\* whether a periodic callback, a debounce callback or a watcher's event calls
\* it; and, when every awaited operation ends, a task that is in flight after
\* dispose() comes to its end
DisposeStopsTriggers ==
    /\ [][Disposed => SyncBodies' \subseteq SyncBodies]_vars
    /\ \A t \in TaskIds : (Disposed /\ tasks[t].pc # "idle") ~> (tasks[t].pc = "idle")

\* dispose() was called while a debounce callback was copying the files: the
\* callback has found changes and called sync(), which returned at once
DisposeStopsTriggersWitness ==
    /\ Disposed
    /\ \E t \in TaskIds :
          tasks[t].kind = "debounce" /\ tasks[t].pc = "idle" /\ tasks[t].res = "disabled"

\* C19: once dispose() has been called neither the periodic timer nor the
\* debounce timer is pending
DisposeClearsTimers ==
    Disposed => syncTimer = NoTimer /\ debounceTimer = NoTimer

\* C28: the callback of the debounce timer starts with the mirror of the live
\* files into the working tree and reads the status only after that mirror has
\* returned; when the status is read, the callback calls sync() (which starts
\* its body or returns at one of its guards) if the working tree is dirty, and
\* otherwise ends without touching the syncing guard or the repository; a
\* debounce callback enters the body of sync() in no other step
DebounceSyncsIffDirty ==
    [][/\ DebounceFire =>
             \E t \in TaskIds : /\ tasks[t].pc = "idle"
                                /\ tasks'[t].kind = "debounce"
                                /\ tasks'[t].pc = "copyTo_glob"
                                /\ tasks'[t].ret = "deb_copied"
       /\ \A t \in TaskIds :
             /\ (tasks'[t].ret = "deb_status" /\ tasks[t].ret # "deb_status") =>
                   tasks[t].ret = "deb_copied"
             /\ (tasks[t].ret = "deb_status" /\ tasks'[t] # tasks[t]) =>
                   IF hasChanges
                   THEN \/ tasks'[t].ret = "sync_status1" /\ ~isSyncing /\ isSyncing'
                        \/ /\ tasks'[t].pc = "idle"
                           /\ tasks'[t].res \in {"skipped", "disabled"}
                   ELSE /\ tasks'[t].pc = "idle" /\ tasks'[t].res = "ok"
                        /\ UNCHANGED <<isSyncing, syncReleaseTimers, gitVars>>
             /\ (tasks'[t].kind = "debounce" /\ tasks'[t].ret = "sync_status1"
                    /\ tasks[t].ret # "sync_status1") =>
                   tasks[t].ret = "deb_status" /\ hasChanges]_vars

\* a debounce callback has ended without a sync: after two edits the live file
\* is as the working tree was, and no commit was made
DebounceSyncsIffDirtyWitness ==
    /\ editsLeft = 0 /\ ~hasChanges /\ localBranch = <<1>>
    /\ \E t \in TaskIds :
          tasks[t].kind = "debounce" /\ tasks[t].pc = "idle" /\ tasks[t].res = "ok"

\* ------------------------------------------------------------- the two paths of sync()
\* the labels of the calls sync() makes when hasChanges() returned true at its
\* start, and of the calls it makes when it returned false
DirtyPathLabels == {"sync_copied", "sync_extpushed", "sync_pushed"}
CleanPathLabels == {"sync_pulled", "sync_status2", "sync_applied", "sync_extpulled"}

\* the steps of the operation that sync() awaits at each label
CallOf(l) ==
    CASE l = "sync_status1" -> {"git_status"}
      [] l = "sync_copied" -> {"copyTo_glob", "copyTo_file"}
      [] l = "sync_extpushed" -> {"ext_push"}
      [] l = "sync_pushed" -> PushPcs
      [] l = "sync_pulled" -> {"git_pull"}
      [] l = "sync_status2" -> {"git_status"}
      [] l = "sync_applied" -> {"copyFrom_glob", "copyFrom_file"}
      [] l = "sync_extpulled" -> {"ext_pull"}

\* C30: the body of sync() takes one of two paths by what hasChanges() returns
\* at its start. When the working tree is dirty it mirrors the live files to
\* the working tree, then calls pushExtensions(), then GitService.push(), each
\* once the one before has returned without throwing, and never mirrors the
\* working tree to the live files; otherwise it calls GitService.pull(), stays
\* on the calls of that path and never pushes. No step of a body on the dirty
\* path changes a live file, and none on the clean path moves the remote
SyncTakesOnePath ==
    [][\A t \in TaskIds :
          LET l == tasks[t].ret
              n == tasks'[t].ret
              steps == tasks'[t] # tasks[t]
              ended == tasks'[t].pc = "idle"
              threw == ended /\ tasks'[t].res = "error"
          IN /\ l \in SyncLabels => tasks[t].pc \in CallOf(l)
             /\ l = "sync_status1" /\ steps =>
                   IF hasChanges
                   THEN n = "sync_copied" /\ tasks'[t].pc = "copyTo_glob"
                   ELSE n = "sync_pulled" /\ tasks'[t].pc = "git_pull"
             /\ n \in DirtyPathLabels => l \in DirtyPathLabels \cup {"sync_status1"}
             /\ n \in CleanPathLabels => l \in CleanPathLabels \cup {"sync_status1"}
             /\ l = "sync_copied" /\ n # l =>
                   threw \/ (n = "sync_extpushed" /\ tasks'[t].pc = "ext_push")
             /\ l = "sync_extpushed" /\ n # l =>
                   threw \/ (n = "sync_pushed" /\ tasks'[t].pc \in {"push_pull", "push_add"})
             /\ l = "sync_pushed" /\ n # l => ended
             /\ l \in DirtyPathLabels /\ steps =>
                   live' = live /\ isApplyingRemoteChanges' = isApplyingRemoteChanges
             /\ l \in CleanPathLabels /\ steps => remoteBranch' = remoteBranch]_vars

\* a body that found the working tree dirty has mirrored the live files and has
\* called pushExtensions(), and its push() is at git push with the commit made
SyncTakesOnePathWitness ==
    \E t \in TaskIds :
        /\ tasks[t].ret = "sync_pushed" /\ tasks[t].pc = "push_push"
        /\ Len(localBranch) > Len(originBranch)
        /\ workTree = live

\* ------------------------------------------------------------- duplicate events
\* the user edits a live file MaxEvents times at intervals shorter than
\* EVENT_THRESHOLD, each time while no sync is running; no command is run, no
\* git command fails and the remote does not move
UserEdit(f, v) == FreeTasks = TaskIds /\ LiveEdit(f, v)

NextFilter ==
    \/ PeriodicFire \/ DebounceFire \/ SyncRelease \/ ApplyRelease
    \/ \E d \in FineDeltas : Advance(d)
    \/ AdvanceToDue
    \/ \E f \in Files, v \in Contents : UserEdit(f, v)
    \/ \E f \in Files : handleFileEvent(f)
    \/ \E t \in TaskIds : DebounceStep(t)

InitFilter == Ready /\ Budget(0, MaxEvents, 0, 0)

SpecFilter == InitFilter /\ [][NextFilter]_vars

\* the event of the path f that handleFileEvent handles in this step is passed
\* on: its time is stored in lastEventTime and handleFileChange is called
PassedOn(f) == lastEventAge'[f] = 0 /\ Ctl' = handleFileChange(Ctl)
\* it is dropped: lastEventTime keeps its entry and no state of the service changes
Dropped(f) == lastEventAge' = lastEventAge /\ Ctl' = Ctl

\* C29: a file event of a path is dropped if and only if the last event of the
\* path that was passed on is less than EVENT_THRESHOLD old, and it is passed
\* on otherwise; a dropped event does not count as the earlier event of the
\* events after it; an event with no earlier event of its path in the last
\* EVENT_THRESHOLD is always passed on, and with the guards open it arms the
\* debounce timer
DroppedIffPassedEventRecent ==
    [][\A f \in Files : handleFileEvent(f) =>
          /\ Dropped(f) <=> lastEventAge[f] < EVENT_THRESHOLD
          /\ ~(lastEventAge[f] < EVENT_THRESHOLD) => PassedOn(f)
          /\ Dropped(f) => sinceDelivered[f] < EVENT_THRESHOLD
          /\ sinceDelivered[f] >= EVENT_THRESHOLD =>
                /\ PassedOn(f) /\ ~Dropped(f)
                /\ isEnabled /\ ~isSyncing /\ ~isApplyingRemoteChanges
                      => debounceTimer' = DebounceDelay]_vars

\* an event was just dropped: it was delivered now, and the last event of the
\* path that was passed on is younger than EVENT_THRESHOLD
DroppedIffPassedEventRecentWitness ==
    \E f \in Files :
        /\ sinceDelivered[f] = 0 /\ f \notin fsEvents
        /\ lastEventAge[f] > 0 /\ lastEventAge[f] < EVENT_THRESHOLD
        /\ debounceTimer = DebounceDelay - lastEventAge[f]

\* C29 as stated: a file event of a path is dropped if and only if some earlier
\* event of the path, passed on or not, is less than EVENT_THRESHOLD old
DroppedIffAnyEventRecent ==
    [][\A f \in Files : handleFileEvent(f) =>
          (Dropped(f) <=> sinceDelivered[f] < EVENT_THRESHOLD)]_vars

\* ------------------------------------------------------------- one edit
\* the enabled, idle service with a clean working tree that matches the remote;
\* the user edits a live file; the remote does not move and no command is run;
\* every operation that a task awaits ends, every timer that is due fires, and
\* time passes
EditStep(t) ==
    \/ GitStatus(t) \/ GitPull(t)
    \/ PushPull(t) \/ PushAdd(t) \/ PushCommit(t) \/ PushPush(t)
    \/ CopyToGlob(t) \/ CopyToFile(t)
    \/ CopyFromGlob(t) \/ CopyFromFile(t)
    \/ PushExtensions(t) \/ PullExtensions(t)

NextEdit ==
    \/ PeriodicFire \/ DebounceFire \/ SyncRelease \/ ApplyRelease
    \/ \E d \in Deltas : Advance(d)
    \/ AdvanceToDue
    \/ \E f \in Files, v \in Contents : LiveEdit(f, v)
    \/ \E f \in Files : handleFileEvent(f)
    \/ \E t \in TaskIds : EditStep(t)

InitEdit == Ready /\ Budget(0, MaxEdits, 0, 0)

EditFairness ==
    /\ WF_vars(PeriodicFire) /\ WF_vars(DebounceFire)
    /\ WF_vars(SyncRelease) /\ WF_vars(ApplyRelease)
    /\ WF_vars(AdvanceToDue)
    /\ \A f \in Files : WF_vars(handleFileEvent(f))
    /\ \A t \in TaskIds : WF_vars(EditStep(t))

SpecEdit == InitEdit /\ [][NextEdit]_vars /\ EditFairness

\* C21: once the event of an edit that wrote a live file has armed the debounce
\* timer, a state follows in which the working tree holds the live content,
\* one new commit with that content exists, and the remote branch holds it
EditReachesRemote ==
    (debounceTimer # NoTimer /\ \A f \in Files : live[f] # 0)
        ~> /\ workTree = live
           /\ Len(localBranch) = 2 /\ HeadTree = live
           /\ remoteBranch = localBranch

\* ------------------------------------------------------------- initialize
\* a service just constructed whose repository URL may be empty when
\* initialize() is called
NextInit ==
    \/ NextCold
    \/ \E t \in TaskIds : GitInitializeNoUrl(t)

SpecInit == InitCold /\ [][NextInit]_vars

\* C26: initialize() with an empty repository URL throws and leaves the
\* working directory, the clone and the initialized flag as they were; an
\* initialize() that fails leaves the flag as it was; the flag becomes true
\* only in the step in which the git commands of an initialize() succeed
InitializedOnlyOnSuccess ==
    [][/\ \A t \in TaskIds :
             GitInitializeNoUrl(t) => UNCHANGED gitVars /\ tasks'[t].res = "error"
       /\ \A t \in TaskIds :
             (tasks[t].pc = "git_init" /\ tasks'[t].res = "error") => UNCHANGED initialized
       /\ (initialized' /\ ~initialized) =>
             \E t \in TaskIds : /\ tasks[t].pc = "git_init"
                                /\ tasks'[t].pc # "git_init"
                                /\ tasks'[t].res # "error"
                                /\ UNCHANGED faultsLeft]_vars

\* the first initialize() of a service without a clone has failed for its
\* empty URL: no working directory, not initialized
InitializedOnlyOnSuccessWitness ==
    /\ ~initialized /\ ~workingDirectoryExists
    /\ faultsLeft = MaxFaults /\ cmdsLeft = MaxColdCmds - 1
    /\ \E t \in TaskIds : tasks[t].kind = "init" /\ tasks[t].res = "error"

\* ------------------------------------------------------------- reinitialize
\* the ready service on which the user runs the command reinitialize and then
\* other commands; the command is run while nothing else is in progress, and
\* other commands and the periodic sync wait until it has ended; no file is
\* edited, the remote does not move and no git command fails
NoReinit == \A t \in TaskIds : tasks[t].kind = "reinitialize" => tasks[t].pc = "idle"
Quiet == FreeTasks = TaskIds

UserReinitialize == Quiet /\ CmdReinitialize
UserSync == NoReinit /\ CmdSync
UserForcePush == NoReinit /\ CmdForcePush
UserForcePull == NoReinit /\ CmdForcePull
PeriodicSync == NoReinit /\ PeriodicFire

ReinitStep(t) ==
    \/ ReinitRm(t) \/ GitInitialize(t) \/ GitInitializeNoUrl(t)
    \/ GitStatus(t) \/ GitPull(t)
    \/ ForcePushPull(t) \/ ForcePushAdd(t) \/ ForcePushCommit(t) \/ ForcePushPush(t)
    \/ ForcePullFetch(t) \/ ForcePullReset(t)
    \/ CopyToGlob(t) \/ CopyToFile(t) \/ CopyFromGlob(t) \/ CopyFromFile(t)
    \/ PushExtensions(t) \/ PullExtensions(t)

NextReinit ==
    \/ UserReinitialize \/ UserSync \/ UserForcePush \/ UserForcePull
    \/ PeriodicSync \/ SyncRelease \/ ApplyRelease
    \/ \E d \in Deltas : Advance(d)
    \/ AdvanceToDue
    \/ \E t \in TaskIds : ReinitStep(t)

InitReinit == Ready /\ Budget(MaxReinitCmds, 0, 0, 0)

SpecReinit == InitReinit /\ [][NextReinit]_vars

\* the positions of a task inside pull(), push(), forcePush() and forcePull()
\* of the GitService, past their test of the initialized flag
GitCallPcs == {"git_pull", "push_pull", "push_add", "push_commit", "push_push",
               "push_reset", "push_prompt", "push_rpull", "push_radd",
               "push_rcommit", "push_rpush", "fpush_pull", "fpush_add",
               "fpush_commit", "fpush_push", "fpull_fetch", "fpull_reset"}

\* C27: while reinitialize() re-runs initialize() the initialized flag is
\* false, and it stays false when that initialize() fails; while the flag is
\* false hasChanges() is false, no task gets past the test of the flag in
\* pull(), push(), forcePush() or forcePull(), and a forcePush or forcePull
\* command ends in an error
ReinitializeClearsFlag ==
    /\ [](\A t \in TaskIds :
            (tasks[t].kind = "reinitialize" /\ tasks[t].pc = "git_init") => ~initialized)
    /\ [](~initialized => ~hasChanges)
    /\ [][\A t \in TaskIds :
            /\ (tasks[t].kind = "reinitialize" /\ tasks[t].pc = "git_init"
                   /\ tasks'[t].res = "error") => ~initialized'
            /\ (~initialized /\ tasks'[t].pc \in GitCallPcs) => tasks[t].pc \in GitCallPcs
            /\ (~initialized /\ ~initialized' /\ tasks'[t] # tasks[t]
                   /\ tasks'[t].kind \in {"forcePush", "forcePull"}
                   /\ tasks'[t].pc = "idle") => tasks'[t].res = "error"]_vars

\* reinitialize() has failed in its initialize() and a forcePush command run
\* after it has copied the live files and failed
ReinitializeClearsFlagWitness ==
    /\ ~initialized /\ localBranch = <<>>
    /\ \E t \in TaskIds : tasks[t].kind = "forcePush" /\ tasks[t].res = "error"
    /\ \E f \in Files : workTree[f] # 0

\* ------------------------------------------------------------- ExtensionService
notExt == <<ctlVars, gitVars, envVars, clockVars, live, fsEvents, mirror>>

\* installMissingExtensions: the entries of the synced list whose id is not
\* among the ids of vscode.extensions.all
extensionsToInstallAll(synced, all) == synced
extensionsToInstall(synced, all) == SelectSeq(synced, LAMBDA e : e \notin all)

\* removeExtraExtensions: the extensions of vscode.extensions.all that are not
\* built in and whose id is not in the synced list
extraExtensionsWithBuiltin(synced, all, builtin) ==
    SelectSeq(ExtOrder, LAMBDA e : e \in all /\ ~InSeq(e, synced))
extraExtensions(synced, all, builtin) ==
    SelectSeq(ExtOrder, LAMBDA e : e \in all /\ e \notin builtin /\ ~InSeq(e, synced))

ExtEnd(x, r) == [x EXCEPT !.pc = "done", !.res = r, !.queue = <<>>]

\* pullExtensions after installMissingExtensions has returned
AfterInstall(x) ==
    IF x.autoRemove
    THEN LET extra == extraExtensions(x.synced, x.all, x.builtin)
         IN  IF extra = <<>> THEN ExtEnd(x, "ok")
             ELSE [x EXCEPT !.pc = "remove", !.queue = extra]
    ELSE ExtEnd(x, "ok")

\* pullExtensions up to its first await: the configuration is read
pullExtensions ==
    /\ ext.pc = "idle"
    /\ ext' = IF ~ext.sync THEN ExtEnd(ext, "ok")
              ELSE [ext EXCEPT !.pc = "read", !.all0 = ext.all]
    /\ UNCHANGED notExt

\* readSyncedExtensions returns null or the list, or throws; with the list,
\* installMissingExtensions computes the entries to install
readSyncedExtensions ==
    /\ ext.pc = "read"
    /\ \/ ext' = ExtEnd(ext, "error")
       \/ /\ ext.synced = NoList
          /\ ext' = ExtEnd(ext, "ok")
       \/ /\ ext.synced # NoList
          /\ LET missing == extensionsToInstall(ext.synced, ext.all)
             IN  ext' = IF missing = <<>> THEN AfterInstall(ext)
                        ELSE [ext EXCEPT !.pc = "install", !.queue = missing]
    /\ UNCHANGED notExt

\* a failed request ends the loop and is rethrown
installExtensionStops ==
    /\ ext.pc = "install"
    /\ LET id == Head(ext.queue)
           x == [ext EXCEPT !.installs = Append(@, id), !.queue = Tail(@)]
       IN  \/ ext' = IF x.queue = <<>> THEN AfterInstall([x EXCEPT !.all = @ \cup {id}])
                      ELSE [x EXCEPT !.all = @ \cup {id}]
           \/ ext' = ExtEnd([x EXCEPT !.failed = @ + 1], "error")
    /\ UNCHANGED notExt

\* one turn of the loop of installMissingExtensions: the command
\* workbench.extensions.installExtension succeeds or fails
installExtension ==
    /\ ext.pc = "install"
    /\ LET id == Head(ext.queue)
           x == [ext EXCEPT !.installs = Append(@, id), !.queue = Tail(@)]
       IN  \E ok \in BOOLEAN :
             LET y == IF ok THEN [x EXCEPT !.all = @ \cup {id}]
                      ELSE [x EXCEPT !.failed = @ + 1]
             IN  ext' = IF y.queue = <<>> THEN AfterInstall(y) ELSE y
    /\ UNCHANGED notExt

\* one turn of the loop of removeExtraExtensions: the command
\* workbench.extensions.uninstallExtension succeeds or fails
uninstallExtension ==
    /\ ext.pc = "remove"
    /\ LET id == Head(ext.queue)
           x == [ext EXCEPT !.uninstalls = Append(@, id), !.queue = Tail(@)]
       IN  \E ok \in BOOLEAN :
             LET y == IF ok THEN [x EXCEPT !.all = @ \ {id}]
                      ELSE [x EXCEPT !.failed = @ + 1]
             IN  ext' = IF y.queue = <<>> THEN ExtEnd(y, "ok") ELSE y
    /\ UNCHANGED notExt

\* the lists saveExtensionsToFile writes: one entry for each extension
SyncedLists ==
    {l \in UNION {[1..n -> ExtIds] : n \in 0..MaxSynced} :
        \A i, j \in 1..Len(l) : i # j => l[i] # l[j]}

ExtInputs ==
    {[ExtIdle EXCEPT !.sync = s, !.autoRemove = r, !.synced = l, !.all = a, !.builtin = b] :
        s \in BOOLEAN, r \in BOOLEAN, l \in SyncedLists \cup {NoList},
        a \in SUBSET ExtIds, b \in SUBSET ExtIds}

InitExt ==
    /\ ServiceReady /\ Budget(0, 0, 0, 0) /\ mirror = MirrorIdle
    /\ ext \in ExtInputs /\ ext.builtin \subseteq ext.all

NextExt ==
    \/ pullExtensions
    \/ readSyncedExtensions
    \/ installExtension
    \/ uninstallExtension

SpecExt == InitExt /\ [][NextExt]_vars

SeqSet(q) == {q[i] : i \in 1..Len(q)}
Once(q) == \A i, j \in 1..Len(q) : i # j => q[i] # q[j]
\* pullExtensions has returned after it read a synced list
ExtPulled == ext.pc = "done" /\ ext.res = "ok" /\ ext.sync /\ ext.synced # NoList

\* C22: when pullExtensions, with extension sync enabled, has returned, it has
\* requested the installation of exactly the ids of the synced list that were
\* not installed when it was called, each once; at any earlier point it has
\* requested no other id and none twice
InstallsExactlyMissing ==
    /\ Once(ext.installs)
    /\ SeqSet(ext.installs) \subseteq {e \in SeqSet(ext.synced) : e \notin ext.all0}
    /\ ExtPulled => SeqSet(ext.installs) = {e \in SeqSet(ext.synced) : e \notin ext.all0}
    /\ ~(ext.sync /\ ext.synced # NoList) => ext.installs = <<>>

InstallsExactlyMissingWitness ==
    /\ ExtPulled
    /\ Len(ext.installs) = 2
    /\ SeqSet(ext.synced) \cap ext.all0 # {}

\* the ids pullExtensions is to install and to uninstall, from its inputs
Missing == {e \in SeqSet(ext.synced) : e \notin ext.all0}
Extra == {e \in ext.all0 : e \notin ext.builtin /\ e \notin SeqSet(ext.synced)}

\* C23: pullExtensions requests no uninstallation when autoRemove is false; when
\* it is true, it requests only installed ids that are not built in and not in
\* the synced list, and when it has returned it has requested each of them
UninstallsExactlyExtra ==
    /\ ~ext.autoRemove => ext.uninstalls = <<>>
    /\ Once(ext.uninstalls)
    /\ SeqSet(ext.uninstalls) \subseteq Extra
    /\ (ExtPulled /\ ext.autoRemove) => SeqSet(ext.uninstalls) = Extra
    /\ ~(ext.sync /\ ext.synced # NoList) => ext.uninstalls = <<>>

UninstallsExactlyExtraWitness ==
    /\ ExtPulled /\ ext.autoRemove
    /\ ext.uninstalls # <<>>
    /\ ext.builtin \ SeqSet(ext.synced) # {}
    /\ ext.all0 \cap SeqSet(ext.synced) # {}

\* C24: after an install or uninstall request has failed, pullExtensions does
\* not raise, and when it has returned it has requested every id it was to
\* install and, with autoRemove, every id it was to uninstall
FailedRequestIsSkipped ==
    ext.failed > 0 =>
        /\ ext.res # "error"
        /\ ext.pc = "done" =>
              /\ SeqSet(ext.installs) = Missing
              /\ ext.autoRemove => SeqSet(ext.uninstalls) = Extra

FailedRequestIsSkippedWitness ==
    /\ ext.pc = "done"
    /\ Len(ext.installs) = 2 /\ ext.uninstalls # <<>>
    /\ ext.failed = Len(ext.installs) + Len(ext.uninstalls)

\* ------------------------------------------------------------- a mirror batch
\* copyFilesToWorkingDir and copyFilesFromWorkingDir over several files: the
\* source directory is the live directory and the target the working tree, or
\* the other way round
notMirror == <<ctlVars, gitVars, envVars, clockVars, live, fsEvents, ext>>

\* the files a glob of the patterns finds in the source directory, then the
\* external files, which are tried whether they exist or not
MirrorBatch(dir) ==
    SelectSeq(MirrorOrder, LAMBDA f : f \in MirrorExternal \/ dir[f] # 0)

MirrorEnd(m, r) == [m EXCEPT !.pc = "done", !.res = r, !.todo = <<>>]

\* the glob
mirrorGlob ==
    /\ mirror.pc = "idle"
    /\ LET b == MirrorBatch(mirror.source)
       IN  mirror' = IF b = <<>> THEN MirrorEnd(mirror, "ok")
                     ELSE [mirror EXCEPT !.pc = "copy", !.batch = b, !.todo = b]
    /\ UNCHANGED notMirror

\* a copyFile that throws when its source does not exist
mirrorCopyFileStrict ==
    /\ mirror.pc = "copy"
    /\ LET f == Head(mirror.todo)
           m == [mirror EXCEPT !.todo = Tail(@), !.at = f]
       IN  IF mirror.source[f] = 0
           THEN mirror' = MirrorEnd(m, "error")
           ELSE LET n == [m EXCEPT !.target = copyFile(mirror.source, @, f),
                                   !.copied = @ \cup {f}]
                IN  mirror' = IF n.todo = <<>> THEN MirrorEnd(n, "ok") ELSE n
    /\ UNCHANGED notMirror

\* one copyFile of the batch: a source that exists is copied or the copy
\* throws; a source that does not exist is logged
mirrorCopyFile ==
    /\ mirror.pc = "copy"
    /\ LET f == Head(mirror.todo)
           m == [mirror EXCEPT !.todo = Tail(@), !.at = f]
       IN  \/ /\ mirror.source[f] # 0
              /\ mirror' = MirrorEnd(m, "error")
           \/ LET n == [m EXCEPT !.target = copyFile(mirror.source, @, f),
                                  !.copied = IF mirror.source[f] # 0 THEN @ \cup {f} ELSE @]
              IN  mirror' = IF n.todo = <<>> THEN MirrorEnd(n, "ok") ELSE n
    /\ UNCHANGED notMirror

\* a file the glob found is deleted before the batch reaches it
sourceRemoved(f) ==
    /\ mirror.pc = "copy" /\ ~mirror.removed
    /\ InSeq(f, mirror.todo) /\ mirror.source[f] # 0
    /\ mirror' = [mirror EXCEPT !.source[f] = 0, !.removed = TRUE]
    /\ UNCHANGED notMirror

MirrorInputs ==
    {[MirrorIdle EXCEPT !.source = s, !.target = d] :
        s \in [MirrorFiles -> {0, 1}], d \in [MirrorFiles -> {0, MaxContent}]}

InitMirror ==
    /\ ServiceReady /\ Budget(0, 0, 0, 0) /\ ext = ExtIdle
    /\ mirror \in MirrorInputs

NextMirror ==
    \/ mirrorGlob
    \/ mirrorCopyFile
    \/ \E f \in MirrorFiles : sourceRemoved(f)

SpecMirror == InitMirror /\ [][NextMirror]_vars

\* C25: a mirror batch raises an error only at a file whose source exists, and
\* a batch that has ended without an error has copied every file of the batch
\* whose source exists, whether or not the source of another file was missing
MissingSourceIsSkipped ==
    /\ mirror.res = "error" => mirror.source[mirror.at] # 0
    /\ (mirror.pc = "done" /\ mirror.res = "ok") =>
          \A f \in SeqSet(mirror.batch) :
              mirror.source[f] # 0 => mirror.target[f] = mirror.source[f]

\* a batch has ended in which a file was copied after a file whose source was
\* missing had been tried
MissingSourceIsSkippedWitness ==
    /\ mirror.pc = "done" /\ mirror.res = "ok"
    /\ \E i, j \in 1..Len(mirror.batch) :
          /\ i < j
          /\ mirror.source[mirror.batch[i]] = 0
          /\ mirror.batch[j] \in mirror.copied
          /\ mirror.target[mirror.batch[j]] = 1

\* ------------------------------------------------------------- the two watchers
\* the service with its configuration listener and its extension listener: the
\* user edits a live file, changes settingsSync.files, installs an extension
\* and toggles the service while nothing is in flight; the remote does not
\* move and no git command fails
UserToggle == Quiet /\ toggleEnabled

WatchStep(t) ==
    \/ GitStatus(t) \/ GitPull(t)
    \/ PushPull(t) \/ PushAdd(t) \/ PushCommit(t) \/ PushPush(t)
    \/ CopyToGlob(t) \/ CopyToFile(t) \/ CopyFromGlob(t) \/ CopyFromFile(t)
    \/ PushExtensions(t) \/ PullExtensions(t)

NextWatch ==
    \/ UserToggle \/ configChanged \/ extensionsChanged
    \/ PeriodicFire \/ DebounceFire \/ SyncRelease \/ ApplyRelease
    \/ \E d \in Deltas : Advance(d)
    \/ AdvanceToDue
    \/ \E f \in Files, v \in Contents : LiveEdit(f, v)
    \/ \E f \in Files : handleFileEvent(f)
    \/ \E t \in TaskIds : WatchStep(t)

InitWatch == Ready /\ Budget(MaxWatchCmds, MaxEdits, 0, 0)

SpecWatch == InitWatch /\ [][NextWatch]_vars

\* ------------------------------------------------------------- the watchers' pushes
\* the push() calls that the two listeners make
WatcherPushLabels == {"cfg_pushed", "extw_pushed"}
WatcherPushes == {t \in TaskIds : tasks[t].ret \in WatcherPushLabels}

\* C32: at most one of pull(), push(), forcePush() and forcePull() is in
\* progress at a time, and a push() that the configuration listener or the
\* extension listener started overlaps no body of sync() and no other such push
OneVersionControlOperation ==
    /\ Cardinality({t \in TaskIds : tasks[t].pc \in GitCallPcs}) <= 1
    /\ WatcherPushes # {} => SyncBodies = {} /\ Cardinality(WatcherPushes) = 1

\* ------------------------------------------------------------- the debounce timer and the guards
\* C33: the callback of the debounce timer starts its mirror of the live files
\* to the working tree only while neither guard is set, and the sync() it
\* calls enters its body only while neither guard is set
DebounceWaitsForGuards ==
    [][/\ DebounceFire => ~isSyncing /\ ~isApplyingRemoteChanges
       /\ \A t \in TaskIds :
             (/\ tasks'[t].kind = "debounce"
              /\ tasks[t].ret = "deb_status" /\ tasks'[t].ret = "sync_status1")
             => ~isSyncing /\ ~isApplyingRemoteChanges]_vars

\* ------------------------------------------------------------- the disabled service
\* the callbacks and listeners that run without a command of the user
AutomaticKinds == {"periodic", "debounce", "configChange", "extensionChange"}

\* C34: while the service is disabled no step of a periodic callback, of a
\* debounce callback, of the configuration listener or of the extension
\* listener changes the working tree or is a call of pull() or push()
DisabledMeansNoAutomaticWork ==
    [][~isEnabled =>
          \A t \in TaskIds :
              (tasks'[t].kind \in AutomaticKinds /\ tasks'[t] # tasks[t]) =>
                  /\ workTree' = workTree
                  /\ tasks'[t].pc \notin GitCallPcs]_vars

\* ------------------------------------------------------------- after a sync
\* C35: when the body of a sync() ends without an error and no live file was
\* edited meanwhile, every file has the same content in the live directory and
\* in the working tree
SyncLeavesLiveEqualWorkTree ==
    [][\A t \in TaskIds :
          (/\ tasks[t].ret \in SyncLabels
           /\ tasks'[t].pc = "idle" /\ tasks'[t].res = "ok")
          => live' = workTree']_vars

\* ------------------------------------------------------------- a deleted live file
\* C36: once the event of the deletion of a live file has armed the debounce
\* timer, a state follows in which the file is absent from the working tree
\* and from the tree of the remote branch
DeletionReachesRemote ==
    \A f \in Files :
        (debounceTimer # NoTimer /\ live[f] = 0)
            ~> (workTree[f] = 0 /\ RemoteTree[f] = 0)

\* ------------------------------------------------------------- force commands before initialize
\* C37: while the GitService is not initialized, no step of a forcePush() or a
\* forcePull() changes the working tree, a live file or a guard, and the call
\* ends with an error
ForceNeedsInitialized ==
    [][\A t \in TaskIds :
          (/\ ~initialized
           /\ tasks'[t].kind \in {"forcePush", "forcePull"}
           /\ tasks'[t] # tasks[t])
          => /\ workTree' = workTree /\ live' = live
             /\ isSyncing' = isSyncing
             /\ isApplyingRemoteChanges' = isApplyingRemoteChanges
             /\ tasks'[t].pc = "idle" => tasks'[t].res = "error"]_vars

====
